---- MODULE Spec2Model ----
(***************************************************************************)
(* LearnFlow front end: the course catalog page (CourseListPage: filter,   *)
(* sort, category counts) and the course learning page (CourseLearningPage:*)
(* curriculum sidebar, lesson selection, notes, playback) and the          *)
(* authentication context (AuthProvider: initial session check, auth      *)
(* state listener, login, logout, useRequireAuth) and the route middleware. *)
(*                                                                         *)
(* Representation.  TLA+ strings are ASCII and opaque, so                  *)
(*   - a text the code searches in (title, instructor, skill, search term) *)
(*     is the tuple of its UTF-16 code units;                              *)
(*   - a Korean option literal that the code only compares with === is an  *)
(*     ASCII tag, listed below with the literal it stands for;             *)
(*   - a course object is immutable in the code, so a list of courses is   *)
(*     the sequence of their ids and courseOf looks the fields up;         *)
(*   - rating is kept in tenths (4.8 -> 48) and a Date in whole days since *)
(*     1970-01-01 instead of milliseconds: the comparators only use the    *)
(*     sign of a difference, which both scalings preserve.                 *)
(*                                                                         *)
(*   "all"          '전체'            "popularity"  '인기순'               *)
(*   "free"         '무료'            "rating"      '평점순'               *)
(*   "le50000"      '50000원 이하'    "recency"     '최신순'               *)
(*   "50000-100000" '50000-100000원'  "priceAsc"    '가격 낮은순'          *)
(*   "gt100000"     '100000원 이상'   "priceDesc"   '가격 높은순'          *)
(*   "beginner" '초급'  "intermediate" '중급'  "advanced" '고급'           *)
(*   "programming" '프로그래밍'  "design" '디자인'  "marketing" '마케팅'   *)
(*   "business" '비즈니스'  "selfdev" '자기계발'                           *)
(***************************************************************************)
EXTENDS Integers, Sequences, FiniteSets, TLC

VARIABLES
    page,              \* which page component is mounted: "catalog" or "learning"
    \* ---- CourseListPage ----
    allCourses,        \* the course collection, in source order (ids)
    searchTerm,
    selectedCategory,
    selectedLevel,
    selectedPrice,
    sortBy,
    filteredCourses,   \* useState(allCourses), written by the effect
    categories,        \* sidebar counts as computed by the last render
    effectPending,     \* a render committed whose filter effect has not run yet
    mountOutput,       \* history: the list the effect produced when it first ran,
                       \* and whether it ran again under the mount selection
    lastHandler,       \* history: the event handler that ran last ("none"
                       \* after mount, "set" for a setter, "reset")
    \* ---- CourseLearningPage ----
    sections,          \* courseData.sections, lessons with their flags
    selectedVideo,
    activeTab,
    isSidebarOpen,
    showNoteForm,
    note,              \* the draft in the note form
    notes,             \* the note list of the notes tab
    isPlaying,
    currentTime,       \* in tenths of a second
    consoleLog,        \* the record last written by console.log, if any
    lastOp,            \* history: the handler that ran last ("click" after a
                       \* click on a lesson row, "addNote", "ended", "other")
    lastClick,         \* history: id of the lesson row clicked last, 0 if none
    showControls,
    hideTimer,         \* the pending setTimeout of handleMouseMove, << >> if none:
                       \* seconds left and the isPlaying its closure holds
    quiet,             \* history: whole seconds the video has been playing
                       \* since playback started or the mouse last moved
    \* ---- AuthProvider (null is << >>, a value x is <<x>>) ----
    user,
    session,
    loading,
    error,
    route,             \* the target of the last router.push, << >> if none
    stored,            \* the session the Supabase client holds
    subscribed,        \* the mount effect has run (listener registered)
    getUserPc,         \* getUser(): "idle", "getUser", "profile", "getSession", "done"
    getUserAccount,    \* the account supabase.auth.getUser() returned
    loginPc,           \* login(): "idle", "signIn", "profile", "returned", "rejected"
    loginAccount,      \* data.user of signInWithPassword
    loginResult,       \* the value login() resolved to
    callbacks,         \* sessions of listener calls awaiting their profile fetch
    initialCheck,      \* history: "pending", then "none" or "user" (what getUser found)
    userWritten,       \* history: setUser was called with a profile
    logoutPc,          \* logout(): "idle", "signOut", "returned"
    logoutResult,
    registerPc,        \* register(): "idle", "signUp", "profile", "returned"
    registerData,      \* authData of signUp: the user and the session, if any
    registerResult,
    guarded,           \* a component that calls useRequireAuth() is mounted
    requireAuthRun,    \* the last run of the effect of useRequireAuth: the user
                       \* and loading it saw and whether it pushed; << >> if none
    loggedOut,         \* history: logout has succeeded and nothing has signed
                       \* in or begun to sign in since
    \* ---- middleware (one navigation of the browser) ----
    request,           \* the request being handled, << >> before the first
    response,          \* the answer to it, << >> while it is pending
    redirects          \* history: redirects followed in this navigation

catalogVars == <<allCourses, searchTerm, selectedCategory, selectedLevel,
                 selectedPrice, sortBy, filteredCourses, categories,
                 effectPending, mountOutput, lastHandler>>
learningVars == <<sections, selectedVideo, activeTab, isSidebarOpen,
                  showNoteForm, note, notes, isPlaying, currentTime,
                  consoleLog, lastOp, lastClick, showControls, hideTimer,
                  quiet>>
noteVars == <<note, notes, consoleLog>>
videoVars == <<isPlaying, currentTime>>
controlVars == <<showControls, hideTimer, quiet>>
authVars == <<user, session, loading, error, route, stored, subscribed,
              getUserPc, getUserAccount, loginPc, loginAccount, loginResult,
              callbacks, initialCheck, userWritten, logoutPc, logoutResult,
              registerPc, registerData, registerResult, guarded,
              requireAuthRun, loggedOut>>
logoutVars == <<logoutPc, logoutResult>>
registerVars == <<registerPc, registerData, registerResult>>
guardVars == <<guarded, requireAuthRun>>
serverVars == <<request, response, redirects>>
vars == <<page, catalogVars, learningVars, authVars, serverVars>>

(***************************************************************************)
(* The catalog data of CourseListPage (fields the filter and sort read).   *)
(***************************************************************************)
\* id 1: "React 완벽 마스터: 초급부터 고급까지" / 김개발 / React, JavaScript, JSX, Hooks
course1 ==
    [id |-> 1,
     title |-> <<82, 101, 97, 99, 116, 32, 50756, 48317, 32, 47560, 49828, 53552, 58, 32, 52488, 44553, 48512, 53552, 32, 44256, 44553, 44620, 51648>>,
     instructor |-> <<44608, 44060, 48156>>,
     price |-> 89000, rating |-> 48, students |-> 1245,
     level |-> "beginner", category |-> "programming",
     skills |-> <<<<82, 101, 97, 99, 116>>,
                  <<74, 97, 118, 97, 83, 99, 114, 105, 112, 116>>,
                  <<74, 83, 88>>,
                  <<72, 111, 111, 107, 115>>>>,
     lastUpdated |-> <<2024, 12, 1>>]

\* id 2: "디지털 마케팅 실무: SNS부터 퍼포먼스까지" / 박마케터 / Facebook 광고, Google 애즈, SNS 마케팅, 데이터 분석
course2 ==
    [id |-> 2,
     title |-> <<46356, 51648, 53560, 32, 47560, 52992, 54021, 32, 49892, 47924, 58, 32, 83, 78, 83, 48512, 53552, 32, 54140, 54252, 47676, 49828, 44620, 51648>>,
     instructor |-> <<48149, 47560, 52992, 53552>>,
     price |-> 75000, rating |-> 49, students |-> 892,
     level |-> "intermediate", category |-> "marketing",
     skills |-> <<<<70, 97, 99, 101, 98, 111, 111, 107, 32, 44305, 44256>>,
                  <<71, 111, 111, 103, 108, 101, 32, 50528, 51592>>,
                  <<83, 78, 83, 32, 47560, 52992, 54021>>,
                  <<45936, 51060, 53552, 32, 48516, 49437>>>>,
     lastUpdated |-> <<2024, 11, 28>>]

\* id 3: "UI/UX 디자인 실무: 피그마로 완성하는 앱 디자인" / 이디자이너 / Figma, UI 디자인, UX 리서치, 프로토타이핑
course3 ==
    [id |-> 3,
     title |-> <<85, 73, 47, 85, 88, 32, 46356, 51088, 51064, 32, 49892, 47924, 58, 32, 54588, 44536, 47560, 47196, 32, 50756, 49457, 54616, 45716, 32, 50545, 32, 46356, 51088, 51064>>,
     instructor |-> <<51060, 46356, 51088, 51060, 45320>>,
     price |-> 65000, rating |-> 47, students |-> 756,
     level |-> "beginner", category |-> "design",
     skills |-> <<<<70, 105, 103, 109, 97>>,
                  <<85, 73, 32, 46356, 51088, 51064>>,
                  <<85, 88, 32, 47532, 49436, 52824>>,
                  <<54532, 47196, 53664, 53440, 51060, 54609>>>>,
     lastUpdated |-> <<2024, 11, 15>>]

\* id 4: "데이터 분석 입문: 파이썬으로 시작하는 데이터 사이언스" / 최데이터 / Python, Pandas, NumPy, 데이터 시각화
course4 ==
    [id |-> 4,
     title |-> <<45936, 51060, 53552, 32, 48516, 49437, 32, 51077, 47928, 58, 32, 54028, 51060, 50028, 51004, 47196, 32, 49884, 51089, 54616, 45716, 32, 45936, 51060, 53552, 32, 49324, 51060, 50616, 49828>>,
     instructor |-> <<52572, 45936, 51060, 53552>>,
     price |-> 95000, rating |-> 46, students |-> 623,
     level |-> "beginner", category |-> "programming",
     skills |-> <<<<80, 121, 116, 104, 111, 110>>,
                  <<80, 97, 110, 100, 97, 115>>,
                  <<78, 117, 109, 80, 121>>,
                  <<45936, 51060, 53552, 32, 49884, 44033, 54868>>>>,
     lastUpdated |-> <<2024, 10, 20>>]

\* id 5: "포토샵 마스터클래스: 전문가가 되는 완벽 가이드" / 정그래픽 / Photoshop, 이미지 편집, 합성, 레이어
course5 ==
    [id |-> 5,
     title |-> <<54252, 53664, 49397, 32, 47560, 49828, 53552, 53364, 47000, 49828, 58, 32, 51204, 47928, 44032, 44032, 32, 46104, 45716, 32, 50756, 48317, 32, 44032, 51060, 46300>>,
     instructor |-> <<51221, 44536, 47000, 54589>>,
     price |-> 55000, rating |-> 45, students |-> 445,
     level |-> "beginner", category |-> "design",
     skills |-> <<<<80, 104, 111, 116, 111, 115, 104, 111, 112>>,
                  <<51060, 48120, 51648, 32, 54200, 51665>>,
                  <<54633, 49457>>,
                  <<47112, 51060, 50612>>>>,
     lastUpdated |-> <<2024, 12, 5>>]

\* id 6: "Node.js 백엔드 개발: Express부터 배포까지" / 서백엔드 / Node.js, Express, MongoDB, API 개발
course6 ==
    [id |-> 6,
     title |-> <<78, 111, 100, 101, 46, 106, 115, 32, 48177, 50644, 46300, 32, 44060, 48156, 58, 32, 69, 120, 112, 114, 101, 115, 115, 48512, 53552, 32, 48176, 54252, 44620, 51648>>,
     instructor |-> <<49436, 48177, 50644, 46300>>,
     price |-> 99000, rating |-> 48, students |-> 534,
     level |-> "intermediate", category |-> "programming",
     skills |-> <<<<78, 111, 100, 101, 46, 106, 115>>,
                  <<69, 120, 112, 114, 101, 115, 115>>,
                  <<77, 111, 110, 103, 111, 68, 66>>,
                  <<65, 80, 73, 32, 44060, 48156>>>>,
     lastUpdated |-> <<2024, 11, 10>>]

\* id 7: "엑셀 실무 완전정복: 기초부터 매크로까지" / 김오피스 / Excel, VBA, 매크로, 데이터 분석
course7 ==
    [id |-> 7,
     title |-> <<50641, 49472, 32, 49892, 47924, 32, 50756, 51204, 51221, 48373, 58, 32, 44592, 52488, 48512, 53552, 32, 47588, 53356, 47196, 44620, 51648>>,
     instructor |-> <<44608, 50724, 54588, 49828>>,
     price |-> 45000, rating |-> 44, students |-> 1823,
     level |-> "beginner", category |-> "business",
     skills |-> <<<<69, 120, 99, 101, 108>>,
                  <<86, 66, 65>>,
                  <<47588, 53356, 47196>>,
                  <<45936, 51060, 53552, 32, 48516, 49437>>>>,
     lastUpdated |-> <<2024, 9, 25>>]

\* id 8: "스피치 스킬업: 프레젠테이션의 달인 되기" / 문스피치 / 스피치, 프레젠테이션, 퍼블릭 스피킹, 커뮤니케이션
course8 ==
    [id |-> 8,
     title |-> <<49828, 54588, 52824, 32, 49828, 53420, 50629, 58, 32, 54532, 47112, 51232, 53580, 51060, 49496, 51032, 32, 45804, 51064, 32, 46104, 44592>>,
     instructor |-> <<47928, 49828, 54588, 52824>>,
     price |-> 39000, rating |-> 43, students |-> 298,
     level |-> "beginner", category |-> "selfdev",
     skills |-> <<<<49828, 54588, 52824>>,
                  <<54532, 47112, 51232, 53580, 51060, 49496>>,
                  <<54140, 48660, 47533, 32, 49828, 54588, 53433>>,
                  <<52964, 48036, 45768, 52992, 51060, 49496>>>>,
     lastUpdated |-> <<2024, 11, 30>>]

(***************************************************************************)
(* Bounded inputs: further course records, so that collections other than  *)
(* the built-in catalog are filtered too.  sample101 and sample102 tie on  *)
(* every sort key; the prices sit on the bucket boundaries 0, 50000 and    *)
(* 100000; course9 carries the price 120000 of the price scenario.         *)
(***************************************************************************)
\* "React" / "Kim" / "JS"
sample101 ==
    [id |-> 101,
     title |-> <<82, 101, 97, 99, 116>>,
     instructor |-> <<75, 105, 109>>,
     price |-> 50000, rating |-> 45, students |-> 100,
     level |-> "beginner", category |-> "programming",
     skills |-> << <<74, 83>> >>,
     lastUpdated |-> <<2024, 12, 1>>]

\* "Vue" / "Lee" / "js", "REACT"
sample102 ==
    [id |-> 102,
     title |-> <<86, 117, 101>>,
     instructor |-> <<76, 101, 101>>,
     price |-> 50000, rating |-> 45, students |-> 100,
     level |-> "beginner", category |-> "programming",
     skills |-> << <<106, 115>>, <<82, 69, 65, 67, 84>> >>,
     lastUpdated |-> <<2024, 12, 1>>]

\* "Figma" / "Park React" / (no skills)
sample103 ==
    [id |-> 103,
     title |-> <<70, 105, 103, 109, 97>>,
     instructor |-> <<80, 97, 114, 107, 32, 82, 101, 97, 99, 116>>,
     price |-> 0, rating |-> 48, students |-> 200,
     level |-> "intermediate", category |-> "design",
     skills |-> << >>,
     lastUpdated |-> <<2024, 2, 29>>]

\* "SEO" / "Choi" / "Ads"
sample104 ==
    [id |-> 104,
     title |-> <<83, 69, 79>>,
     instructor |-> <<67, 104, 111, 105>>,
     price |-> 100000, rating |-> 40, students |-> 50,
     level |-> "advanced", category |-> "marketing",
     skills |-> << <<65, 100, 115>> >>,
     lastUpdated |-> <<2025, 1, 1>>]

\* "Go" / "Han" / "Go"
course9 ==
    [id |-> 9,
     title |-> <<71, 111>>,
     instructor |-> <<72, 97, 110>>,
     price |-> 120000, rating |-> 41, students |-> 77,
     level |-> "advanced", category |-> "programming",
     skills |-> << <<71, 111>> >>,
     lastUpdated |-> <<2024, 8, 15>>]

MaxCourses == 3

BuiltinCatalog == <<1, 2, 3, 4, 5, 6, 7, 8>>

\* prices 45000, 65000, 89000, 99000, 120000
PriceScenario == <<7, 3, 1, 6, 9>>

SamplePool == {101, 102, 103, 104}

SampleCollections ==
    UNION {{s \in [1..n -> SamplePool] : \A i, j \in 1..n : i # j => s[i] # s[j]}
           : n \in 0..MaxCourses}

Collections == {BuiltinCatalog, PriceScenario} \cup SampleCollections

\* "" , "REACT", "데이터"
SearchTerms == {<< >>, <<82, 69, 65, 67, 84>>, <<45936, 51060, 53552>>}

KnownCourses ==
    {course1, course2, course3, course4, course5, course6, course7, course8,
     course9, sample101, sample102, sample103, sample104}

courseOf == [i \in {c.id : c \in KnownCourses} |->
                CHOOSE c \in KnownCourses : c.id = i]

(***************************************************************************)
(* The option lists of the filter sidebar and of the sort selector.        *)
(***************************************************************************)
\* variant: one category is missing from the list
categoryNamesShort ==
    <<"all", "programming", "design", "marketing", "business">>

categoryNames ==
    <<"all", "programming", "design", "marketing", "business", "selfdev">>

levelOptions == <<"all", "beginner", "intermediate", "advanced">>

priceOptions == <<"all", "free", "le50000", "50000-100000", "gt100000">>

sortOptions == <<"popularity", "rating", "recency", "priceAsc", "priceDesc">>

Range(s) == {s[i] : i \in 1..Len(s)}

(***************************************************************************)
(* String.prototype.toLowerCase and String.prototype.includes on code      *)
(* units.  Only A-Z occur as cased characters in the texts modelled here.  *)
(***************************************************************************)
toLowerCase(s) ==
    [i \in 1..Len(s) |-> IF s[i] \in 65..90 THEN s[i] + 32 ELSE s[i]]

includes(s, t) ==
    \E k \in 0..(Len(s) - Len(t)) : \A j \in 1..Len(t) : s[k + j] = t[j]

(***************************************************************************)
(* The predicates of the filter callback.                                  *)
(***************************************************************************)
\* variant: the search term is compared as typed
matchesSearchAsTyped(course, term) ==
    \/ includes(toLowerCase(course.title), term)
    \/ includes(toLowerCase(course.instructor), term)
    \/ \E k \in 1..Len(course.skills) :
          includes(toLowerCase(course.skills[k]), term)

matchesSearch(course, term) ==
    \/ includes(toLowerCase(course.title), toLowerCase(term))
    \/ includes(toLowerCase(course.instructor), toLowerCase(term))
    \/ \E k \in 1..Len(course.skills) :
          includes(toLowerCase(course.skills[k]), toLowerCase(term))

matchesCategory(course, category) ==
    category = "all" \/ course.category = category

matchesLevel(course, level) ==
    level = "all" \/ course.level = level

\* variant: the middle bucket takes its lower bound in
matchesPriceFrom50000(course, bucket) ==
    IF bucket = "free" THEN course.price = 0
    ELSE IF bucket = "le50000" THEN course.price <= 50000
    ELSE IF bucket = "50000-100000"
         THEN course.price >= 50000 /\ course.price <= 100000
    ELSE IF bucket = "gt100000" THEN course.price > 100000
    ELSE TRUE

matchesPrice(course, bucket) ==
    IF bucket = "free" THEN course.price = 0
    ELSE IF bucket = "le50000" THEN course.price <= 50000
    ELSE IF bucket = "50000-100000"
         THEN course.price > 50000 /\ course.price <= 100000
    ELSE IF bucket = "gt100000" THEN course.price > 100000
    ELSE TRUE

\* variant: the level predicate is left out of the conjunction
filterCoursesAnyLevel(courses, term, category, level, bucket) ==
    SelectSeq(courses,
              LAMBDA i : /\ matchesSearch(courseOf[i], term)
                         /\ matchesCategory(courseOf[i], category)
                         /\ matchesPrice(courseOf[i], bucket))

\* allCourses.filter(course => ...): a new array, in the order of `courses`
filterCourses(courses, term, category, level, bucket) ==
    SelectSeq(courses,
              LAMBDA i : /\ matchesSearch(courseOf[i], term)
                         /\ matchesCategory(courseOf[i], category)
                         /\ matchesLevel(courseOf[i], level)
                         /\ matchesPrice(courseOf[i], bucket))

(***************************************************************************)
(* new Date("YYYY-MM-DD"): the UTC day number of a civil date.             *)
(***************************************************************************)
dateValue(d) ==
    LET y   == IF d[2] <= 2 THEN d[1] - 1 ELSE d[1]
        era == y \div 400
        yoe == y - era * 400
        mp  == (d[2] + 9) % 12
        doy == (153 * mp + 2) \div 5 + d[3] - 1
        doe == yoe * 365 + yoe \div 4 - yoe \div 100 + doy
    IN  era * 146097 + doe - 719468

(***************************************************************************)
(* The comparators of switch (sortBy); an unlisted key sorts nothing.      *)
(***************************************************************************)
\* variant: popularity sorts ascending
compareFewestFirst(a, b, key) ==
    CASE key = "popularity" -> a.students - b.students
      [] key = "rating"     -> b.rating - a.rating
      [] key = "recency"    -> dateValue(b.lastUpdated) - dateValue(a.lastUpdated)
      [] key = "priceAsc"   -> a.price - b.price
      [] key = "priceDesc"  -> b.price - a.price
      [] OTHER              -> 0

compare(a, b, key) ==
    CASE key = "popularity" -> b.students - a.students
      [] key = "rating"     -> b.rating - a.rating
      [] key = "recency"    -> dateValue(b.lastUpdated) - dateValue(a.lastUpdated)
      [] key = "priceAsc"   -> a.price - b.price
      [] key = "priceDesc"  -> b.price - a.price
      [] OTHER              -> 0

(***************************************************************************)
(* Array.prototype.sort: stable (ECMAScript 2019), so an element is placed *)
(* after every element that does not compare greater than it.              *)
(***************************************************************************)
\* variant: an element is placed before the elements it ties with
insertBeforeTies(sorted, x, key) ==
    LET before == {k \in 1..Len(sorted) :
                     \A j \in 1..k : compare(courseOf[sorted[j]], courseOf[x], key) < 0}
        n == Cardinality(before)
    IN  SubSeq(sorted, 1, n) \o <<x>> \o SubSeq(sorted, n + 1, Len(sorted))

insertSorted(sorted, x, key) ==
    LET before == {k \in 1..Len(sorted) :
                     \A j \in 1..k : compare(courseOf[sorted[j]], courseOf[x], key) <= 0}
        n == Cardinality(before)
    IN  SubSeq(sorted, 1, n) \o <<x>> \o SubSeq(sorted, n + 1, Len(sorted))

RECURSIVE sortCourses(_, _)
sortCourses(courses, key) ==
    IF courses = << >> THEN << >>
    ELSE insertSorted(sortCourses(SubSeq(courses, 1, Len(courses) - 1), key),
                      courses[Len(courses)], key)


(***************************************************************************)
(* The body of the effect on the two arrays it touches: filter() builds a  *)
(* new array and leaves its receiver alone, sort() reorders its receiver,  *)
(* which here is the new array.  source is allCourses as the effect leaves *)
(* it, filtered the array handed to setFilteredCourses.                    *)
(***************************************************************************)
\* variant: allCourses itself is sorted, then filtered
filterEffectSortingSource(courses, term, category, level, bucket, key) ==
    LET ordered == sortCourses(courses, key)
    IN  [source |-> ordered,
         filtered |-> filterCourses(ordered, term, category, level, bucket)]

filterEffect(courses, term, category, level, bucket, key) ==
    LET filtered == filterCourses(courses, term, category, level, bucket)
    IN  [source |-> courses, filtered |-> sortCourses(filtered, key)]

\* variant: the counts are taken over the filtered list
renderCategoriesOfFiltered ==
    [k \in 1..Len(categoryNames) |->
        [name |-> categoryNames[k],
         count |-> IF categoryNames[k] = "all" THEN Len(filteredCourses)
                   ELSE Cardinality({i \in 1..Len(filteredCourses) :
                            courseOf[filteredCourses[i]].category = categoryNames[k]})]]

\* const categories = [...], evaluated by every render
renderCategories ==
    [k \in 1..Len(categoryNames) |->
        [name |-> categoryNames[k],
         count |-> IF categoryNames[k] = "all" THEN Len(allCourses)
                   ELSE Cardinality({i \in 1..Len(allCourses) :
                            courseOf[allCourses[i]].category = categoryNames[k]})]]

(***************************************************************************)
(* courseData.sections of CourseLearningPage.  A lesson written without a  *)
(* locked property reads as undefined, which !lesson.locked treats as      *)
(* false.                                                                  *)
(***************************************************************************)
courseDataSections ==
    << [id |-> 1, lessons |-> <<
          [id |-> 1,  completed |-> TRUE,  current |-> FALSE, locked |-> FALSE],
          [id |-> 2,  completed |-> TRUE,  current |-> FALSE, locked |-> FALSE],
          [id |-> 3,  completed |-> TRUE,  current |-> TRUE,  locked |-> FALSE],
          [id |-> 4,  completed |-> FALSE, current |-> FALSE, locked |-> FALSE],
          [id |-> 5,  completed |-> FALSE, current |-> FALSE, locked |-> FALSE] >>],
       [id |-> 2, lessons |-> <<
          [id |-> 6,  completed |-> FALSE, current |-> FALSE, locked |-> FALSE],
          [id |-> 7,  completed |-> FALSE, current |-> FALSE, locked |-> FALSE],
          [id |-> 8,  completed |-> FALSE, current |-> FALSE, locked |-> TRUE],
          [id |-> 9,  completed |-> FALSE, current |-> FALSE, locked |-> TRUE] >>],
       [id |-> 3, lessons |-> <<
          [id |-> 10, completed |-> FALSE, current |-> FALSE, locked |-> TRUE],
          [id |-> 11, completed |-> FALSE, current |-> FALSE, locked |-> TRUE],
          [id |-> 12, completed |-> FALSE, current |-> FALSE, locked |-> TRUE],
          [id |-> 13, completed |-> FALSE, current |-> FALSE, locked |-> TRUE] >>] >>

\* every lesson of the curriculum, section after section
RECURSIVE lessonsOf(_)
lessonsOf(secs) ==
    IF secs = << >> THEN << >>
    ELSE secs[1].lessons \o lessonsOf(Tail(secs))

tabNames == {"curriculum", "qa", "notes"}

\* courseData.totalLessons, completedLessons and progress, as written
courseDataTotalLessons == 45

courseDataCompletedLessons == 12

courseDataProgress == 27

\* const notes = [...]: time label and content of the two built-in notes
\* "05:23" / "JSX는 JavaScript XML의 약자로, React에서 UI를 작성하는 문법"
\* "12:45" / "컴포넌트는 재사용 가능한 UI 조각. function 또는 class로 정의"
builtinNotes ==
    << [id |-> 1, time |-> <<48, 53, 58, 50, 51>>,
        content |-> <<74, 83, 88, 45716, 32, 74, 97, 118, 97, 83, 99, 114, 105,
                      112, 116, 32, 88, 77, 76, 51032, 32, 50557, 51088, 47196,
                      44, 32, 82, 101, 97, 99, 116, 50640, 49436, 32, 85, 73,
                      47484, 32, 51089, 49457, 54616, 45716, 32, 47928, 48277>>],
       [id |-> 2, time |-> <<49, 50, 58, 52, 53>>,
        content |-> <<52980, 54252, 45324, 53944, 45716, 32, 51116, 49324,
                      50857, 32, 44032, 45733, 54620, 32, 85, 73, 32, 51312,
                      44033, 46, 32, 102, 117, 110, 99, 116, 105, 111, 110, 32,
                      46608, 45716, 32, 99, 108, 97, 115, 115, 47196, 32, 51221,
                      51032>>] >>

\* inputs: drafts "", "  " and " hi "; playback positions 0 s, 59.9 s, 125.0 s
NoteDrafts == {<< >>, <<32, 32>>, <<32, 104, 105, 32>>}

PlaybackTimes == {0, 599, 1250}

(***************************************************************************)
(* String.prototype.trim: white space and line terminators are stripped    *)
(* from both ends.                                                         *)
(***************************************************************************)
whiteSpace == {9, 10, 11, 12, 13, 32, 160, 5760, 8232, 8233, 8239, 8287, 12288, 65279}
                  \cup (8192..8202)

RECURSIVE trimStart(_)
trimStart(s) ==
    IF s # << >> /\ s[1] \in whiteSpace THEN trimStart(Tail(s)) ELSE s

RECURSIVE trimEnd(_)
trimEnd(s) ==
    IF s # << >> /\ s[Len(s)] \in whiteSpace
    THEN trimEnd(SubSeq(s, 1, Len(s) - 1)) ELSE s

trim(s) == trimEnd(trimStart(s))

(***************************************************************************)
(* formatTime.  time is in tenths of a second, so Math.floor(time / 60) is *)
(* time \div 600 and Math.floor(time % 60) is (time % 600) \div 10.        *)
(***************************************************************************)
\* Number.prototype.toString of a non-negative integer
RECURSIVE toString(_)
toString(n) ==
    IF n < 10 THEN <<48 + n>> ELSE toString(n \div 10) \o <<48 + (n % 10)>>

\* String.prototype.padStart(2, '0')
padStart2(s) == IF Len(s) < 2 THEN <<48>> \o s ELSE s

formatTime(time) ==
    LET minutes == time \div 600
        seconds == (time % 600) \div 10
    IN  toString(minutes) \o <<58>> \o padStart2(toString(seconds))

(***************************************************************************)
(* AuthProvider data.  An account is the user object Supabase returns      *)
(* (email may be missing), profileOf the row of the profiles table.        *)
(***************************************************************************)
account123 == [id |-> "123", email |-> <<"test@example.com">>]

account456 == [id |-> "456", email |-> << >>]

accounts == {account123, account456}

profileOf(id) ==
    IF id = "123"
    THEN [full_name |-> <<"Test User">>, avatar_url |-> << >>]
    ELSE [full_name |-> << >>, avatar_url |-> <<"/avatars/456.png">>]

\* the session Supabase issues for an account
sessionOf(account) == [user |-> account]

\* x || '' on a value that may be missing
orEmpty(option) == IF option = << >> THEN "" ELSE option[1]

\* the object handed to setUser
userProfile(account, userData) ==
    [id |-> account.id,
     email |-> orEmpty(account.email),
     full_name |-> orEmpty(userData.full_name),
     avatar_url |-> userData.avatar_url]

signInMessage == "Invalid login credentials"

profileMessage == "Profile not found"

signOutMessage == "Sign out failed"

signUpMessage == "User already registered"

insertMessage == "Profile not created"

\* the arguments of register(email, password, fullName)
registerEmail == "new@example.com"

registerFullName == "New User"

\* the default of the parameter of useRequireAuth
redirectUrl == "/login"

MaxCallbacks == 2

(***************************************************************************)
(* The route middleware.  A pathname, a query string and a cookie value    *)
(* are tuples of code units.  The cookie is << >> when the request has no  *)
(* cookie named token and <<value>> when it has one: cookies.get returns   *)
(* an object then, which is truthy whatever its value.                     *)
(***************************************************************************)
requestPaths ==
    { <<47>>,
      <<47, 108, 111, 103, 105, 110>>,
      <<47, 108, 111, 103, 105, 110, 47, 114, 101, 115, 101, 116>>,
      <<47, 108, 111, 103, 105, 110, 120>>,
      <<47, 114, 101, 103, 105, 115, 116, 101, 114>>,
      <<47, 100, 97, 115, 104, 98, 111, 97, 114, 100>>,
      <<47, 100, 97, 115, 104, 98, 111, 97, 114, 100, 47, 99, 111, 117, 114, 115, 101, 115>>,
      <<47, 112, 114, 111, 102, 105, 108, 101, 47, 97, 37, 50, 48, 98>>,
      <<47, 115, 101, 116, 116, 105, 110, 103, 115>>,
      <<47, 99, 111, 117, 114, 115, 101, 115>>,
      <<47, 97, 112, 105, 47, 100, 97, 116, 97>>,
      <<47, 109, 121, 47, 100, 97, 115, 104, 98, 111, 97, 114, 100>> }
\*   /                      <<47>>
\*   /login                 <<47, 108, 111, 103, 105, 110>>
\*   /login/reset           <<47, 108, 111, 103, 105, 110, 47, 114, 101, 115, 101, 116>>
\*   /loginx                <<47, 108, 111, 103, 105, 110, 120>>
\*   /register              <<47, 114, 101, 103, 105, 115, 116, 101, 114>>
\*   /dashboard             <<47, 100, 97, 115, 104, 98, 111, 97, 114, 100>>
\*   /dashboard/courses     <<47, 100, 97, 115, 104, 98, 111, 97, 114, 100, 47, 99, 111, 117, 114, 115, 101, 115>>
\*   /profile/a%20b         <<47, 112, 114, 111, 102, 105, 108, 101, 47, 97, 37, 50, 48, 98>>
\*   /settings              <<47, 115, 101, 116, 116, 105, 110, 103, 115>>
\*   /courses               <<47, 99, 111, 117, 114, 115, 101, 115>>
\*   /api/data              <<47, 97, 112, 105, 47, 100, 97, 116, 97>>
\*   /my/dashboard          <<47, 109, 121, 47, 100, 97, 115, 104, 98, 111, 97, 114, 100>>

requestSearches == {<< >>, <<63, 116, 97, 98, 61, 49>>}

tokenCookies == {<< >>, <<<< >>>>, <<<<97, 98, 99>>>>}

startsWith(s, prefix) ==
    /\ Len(prefix) <= Len(s)
    /\ \A k \in 1..Len(prefix) : s[k] = prefix[k]

\* config.matcher: '/((?!api|_next/static|_next/image|favicon.ico).*)'
matcherExclusions ==
    <<<<47, 97, 112, 105>>,
      <<47, 95, 110, 101, 120, 116, 47, 115, 116, 97, 116, 105, 99>>,
      <<47, 95, 110, 101, 120, 116, 47, 105, 109, 97, 103, 101>>,
      <<47, 102, 97, 118, 105, 99, 111, 110, 46, 105, 99, 111>>>>

matcher(pathname) ==
    \A k \in 1..Len(matcherExclusions) : ~startsWith(pathname, matcherExclusions[k])

authPagePaths == <<<<47, 108, 111, 103, 105, 110>>, <<47, 114, 101, 103, 105, 115, 116, 101, 114>>>>

protectedPaths ==
    <<<<47, 100, 97, 115, 104, 98, 111, 97, 114, 100>>,
      <<47, 112, 114, 111, 102, 105, 108, 101>>,
      <<47, 115, 101, 116, 116, 105, 110, 103, 115>>>>

hexDigit(n) == IF n < 10 THEN 48 + n ELSE 55 + n

\* variant: the value is written into the query string as it is
formEncodeUnitVerbatim(ch) == <<ch>>

\* URLSearchParams serialisation of one code unit (ASCII)
formEncodeUnit(ch) ==
    IF \/ (ch >= 48 /\ ch <= 57) \/ (ch >= 65 /\ ch <= 90) \/ (ch >= 97 /\ ch <= 122)
       \/ ch \in {42, 45, 46, 95}
    THEN <<ch>>
    ELSE IF ch = 32 THEN <<43>>
    ELSE <<37, hexDigit(ch \div 16), hexDigit(ch % 16)>>

RECURSIVE formEncode(_)
formEncode(text) ==
    IF text = << >> THEN << >>
    ELSE formEncodeUnit(text[1]) \o formEncode(Tail(text))

\* NextResponse.redirect(new URL(pathname, request.url)), with one query
\* parameter set when name is given
redirectTo(pathname, name, value) ==
    [kind |-> "redirect",
     pathname |-> pathname,
     search |-> IF name = << >> THEN << >>
                ELSE <<63>> \o name \o <<61>> \o formEncode(value)]

\* variant: the login page is on the list of protected paths
middlewareProtectingLogin(req) ==
    LET token == req.token
        pathname == req.pathname
        isAuthPage == \E k \in 1..Len(authPagePaths) :
                         startsWith(pathname, authPagePaths[k])
        isProtectedPath ==
            \/ \E k \in 1..Len(protectedPaths) :
                  startsWith(pathname, protectedPaths[k])
            \/ startsWith(pathname, authPagePaths[1])
    IN  IF isAuthPage /\ token # << >>
        THEN redirectTo(protectedPaths[1], << >>, << >>)
        ELSE IF isProtectedPath /\ token = << >>
        THEN redirectTo(authPagePaths[1], <<102, 114, 111, 109>>, pathname)
        ELSE [kind |-> "next"]

middleware(req) ==
    LET token == req.token
        pathname == req.pathname
        isAuthPage == \E k \in 1..Len(authPagePaths) :
                         startsWith(pathname, authPagePaths[k])
        isProtectedPath == \E k \in 1..Len(protectedPaths) :
                              startsWith(pathname, protectedPaths[k])
    IN  IF isAuthPage /\ token # << >>
        THEN redirectTo(protectedPaths[1], << >>, << >>)
        ELSE IF isProtectedPath /\ token = << >>
        THEN redirectTo(authPagePaths[1], <<102, 114, 111, 109>>, pathname)
        ELSE [kind |-> "next"]

MaxRedirects == 3

(***************************************************************************)
(* Initial states: the component state after the first render.             *)
(***************************************************************************)
InitAuthState ==
    /\ user = << >>
    /\ session = << >>
    /\ loading = TRUE
    /\ error = << >>
    /\ route = << >>
    /\ stored = << >>
    /\ subscribed = FALSE
    /\ getUserPc = "idle"
    /\ getUserAccount = << >>
    /\ loginPc = "idle"
    /\ loginAccount = << >>
    /\ loginResult = << >>
    /\ callbacks = << >>
    /\ initialCheck = "pending"
    /\ userWritten = FALSE
    /\ logoutPc = "idle"
    /\ logoutResult = << >>
    /\ registerPc = "idle"
    /\ registerData = << >>
    /\ registerResult = << >>
    /\ guarded = FALSE
    /\ requireAuthRun = << >>
    /\ loggedOut = FALSE

InitServerState ==
    /\ request = << >>
    /\ response = << >>
    /\ redirects = 0

InitCatalogState ==
    /\ allCourses \in Collections
    /\ searchTerm = << >>
    /\ selectedCategory = "all"
    /\ selectedLevel = "all"
    /\ selectedPrice = "all"
    /\ sortBy = "popularity"
    /\ filteredCourses = allCourses
    /\ categories = renderCategories
    /\ effectPending = TRUE
    /\ mountOutput = [ran |-> FALSE, again |-> FALSE, list |-> << >>]
    /\ lastHandler = "none"

InitLearningState ==
    /\ sections = courseDataSections
    /\ selectedVideo = 0
    /\ activeTab = "curriculum"
    /\ isSidebarOpen = TRUE
    /\ showNoteForm = FALSE
    /\ note = << >>
    /\ notes = builtinNotes
    /\ isPlaying = FALSE
    /\ currentTime = 0
    /\ consoleLog = << >>
    /\ lastOp = "none"
    /\ lastClick = 0
    /\ showControls = TRUE
    /\ hideTimer = << >>
    /\ quiet = 0

\* a page that is not mounted has no state: its variables are parked
CatalogUnmounted ==
    /\ allCourses = << >>
    /\ searchTerm = << >>
    /\ selectedCategory = "all"
    /\ selectedLevel = "all"
    /\ selectedPrice = "all"
    /\ sortBy = "popularity"
    /\ filteredCourses = << >>
    /\ categories = << >>
    /\ effectPending = FALSE
    /\ mountOutput = [ran |-> FALSE, again |-> FALSE, list |-> << >>]
    /\ lastHandler = "none"

InitCatalog ==
    /\ page = "catalog" /\ InitCatalogState /\ InitLearningState
    /\ InitAuthState /\ InitServerState

InitLearning ==
    /\ page = "learning" /\ CatalogUnmounted /\ InitLearningState
    /\ InitAuthState /\ InitServerState

\* the provider is mounted; the browser may or may not hold a session
InitAuth ==
    /\ page = "auth" /\ CatalogUnmounted /\ InitLearningState /\ InitServerState
    /\ user = << >>
    /\ session = << >>
    /\ loading = TRUE
    /\ error = << >>
    /\ route = << >>
    /\ stored \in {<< >>} \cup {<<sessionOf(a)>> : a \in accounts}
    /\ subscribed = FALSE
    /\ getUserPc = "idle"
    /\ getUserAccount = << >>
    /\ loginPc = "idle"
    /\ loginAccount = << >>
    /\ loginResult = << >>
    /\ callbacks = << >>
    /\ initialCheck = "pending"
    /\ userWritten = FALSE
    /\ logoutPc = "idle"
    /\ logoutResult = << >>
    /\ registerPc = "idle"
    /\ registerData = << >>
    /\ registerResult = << >>
    /\ guarded = FALSE
    /\ requireAuthRun = << >>
    /\ loggedOut = FALSE

(***************************************************************************)
(* CourseListPage.  A setter called with the value the state already has   *)
(* bails out; otherwise the component renders again (categories is         *)
(* recomputed) and, a dependency having changed, the effect is scheduled.  *)
(* React flushes the effect before it dispatches the next input event.     *)
(***************************************************************************)
Rerender(changed) ==
    /\ categories' = renderCategories
    /\ effectPending' = changed
    /\ UNCHANGED <<page, allCourses, filteredCourses, mountOutput, learningVars,
                   authVars, serverVars>>

SetSearchTerm(value) ==
    /\ page = "catalog" /\ ~effectPending
    /\ lastHandler' = "set"
    /\ searchTerm' = value
    /\ UNCHANGED <<selectedCategory, selectedLevel, selectedPrice, sortBy>>
    /\ Rerender(value # searchTerm)

SetSelectedCategory(name) ==
    /\ page = "catalog" /\ ~effectPending
    /\ lastHandler' = "set"
    /\ selectedCategory' = name
    /\ UNCHANGED <<searchTerm, selectedLevel, selectedPrice, sortBy>>
    /\ Rerender(name # selectedCategory)

SetSelectedLevel(level) ==
    /\ page = "catalog" /\ ~effectPending
    /\ lastHandler' = "set"
    /\ selectedLevel' = level
    /\ UNCHANGED <<searchTerm, selectedCategory, selectedPrice, sortBy>>
    /\ Rerender(level # selectedLevel)

SetSelectedPrice(price) ==
    /\ page = "catalog" /\ ~effectPending
    /\ lastHandler' = "set"
    /\ selectedPrice' = price
    /\ UNCHANGED <<searchTerm, selectedCategory, selectedLevel, sortBy>>
    /\ Rerender(price # selectedPrice)

SetSortBy(key) ==
    /\ page = "catalog" /\ ~effectPending
    /\ lastHandler' = "set"
    /\ sortBy' = key
    /\ UNCHANGED <<searchTerm, selectedCategory, selectedLevel, selectedPrice>>
    /\ Rerender(key # sortBy)

\* variant: the sort key is left as it is
resetFiltersKeepingSort ==
    /\ page = "catalog" /\ ~effectPending
    /\ lastHandler' = "reset"
    /\ searchTerm' = << >>
    /\ selectedCategory' = "all"
    /\ selectedLevel' = "all"
    /\ selectedPrice' = "all"
    /\ UNCHANGED sortBy
    /\ Rerender(<<searchTerm, selectedCategory, selectedLevel, selectedPrice>>
                  # <<<< >>, "all", "all", "all">>)

resetFilters ==
    /\ page = "catalog" /\ ~effectPending
    /\ lastHandler' = "reset"
    /\ searchTerm' = << >>
    /\ selectedCategory' = "all"
    /\ selectedLevel' = "all"
    /\ selectedPrice' = "all"
    /\ sortBy' = "popularity"
    /\ Rerender(<<searchTerm, selectedCategory, selectedLevel, selectedPrice, sortBy>>
                  # <<<< >>, "all", "all", "all", "popularity">>)

\* the selection the page is mounted with, and resetFilters restores
DefaultSelection ==
    /\ searchTerm = << >>
    /\ selectedCategory = "all"
    /\ selectedLevel = "all"
    /\ selectedPrice = "all"
    /\ sortBy = "popularity"

\* the body of useEffect, then the render that setFilteredCourses causes
RunFilterEffect ==
    /\ page = "catalog" /\ effectPending
    /\ LET out == filterEffect(allCourses, searchTerm, selectedCategory,
                               selectedLevel, selectedPrice, sortBy)
       IN  /\ allCourses' = out.source
           /\ filteredCourses' = out.filtered
           /\ mountOutput' =
                 IF ~mountOutput.ran
                 THEN [ran |-> TRUE, again |-> FALSE, list |-> out.filtered]
                 ELSE IF DefaultSelection
                 THEN [mountOutput EXCEPT !.again = TRUE]
                 ELSE mountOutput
    /\ categories' = renderCategories'
    /\ effectPending' = FALSE
    /\ UNCHANGED <<page, searchTerm, selectedCategory, selectedLevel,
                   selectedPrice, sortBy, lastHandler, learningVars, authVars,
                   serverVars>>

NextCatalog ==
    \/ \E value \in SearchTerms : SetSearchTerm(value)
    \/ \E name \in Range(categoryNames) : SetSelectedCategory(name)
    \/ \E level \in Range(levelOptions) : SetSelectedLevel(level)
    \/ \E price \in Range(priceOptions) : SetSelectedPrice(price)
    \/ \E key \in Range(sortOptions) : SetSortBy(key)
    \/ resetFilters
    \/ RunFilterEffect

SpecCatalog == InitCatalog /\ [][NextCatalog]_vars

(***************************************************************************)
(* The selection state is a plain string: setSelectedPrice and setSortBy   *)
(* store whatever they are handed (the sort select passes e.target.value   *)
(* on), and the effect is the only code that interprets the value.  Here   *)
(* the two setters are also called with a string that is no option.        *)
(***************************************************************************)
unrecognizedValues == {"other"}

NextAnySelection ==
    \/ \E value \in SearchTerms : SetSearchTerm(value)
    \/ \E name \in Range(categoryNames) : SetSelectedCategory(name)
    \/ \E level \in Range(levelOptions) : SetSelectedLevel(level)
    \/ \E price \in Range(priceOptions) \cup unrecognizedValues :
          SetSelectedPrice(price)
    \/ \E key \in Range(sortOptions) \cup unrecognizedValues : SetSortBy(key)
    \/ resetFilters
    \/ RunFilterEffect

SpecAnySelection == InitCatalog /\ [][NextAnySelection]_vars

(***************************************************************************)
(* CourseLearningPage.  The lesson rows are rendered on the curriculum     *)
(* tab, the note form on the notes tab.                                    *)
(***************************************************************************)
\* variant: the clicked lesson is flagged current, the others are left alone
ClickLessonMarkingCurrent(lesson) ==
    /\ page = "learning" /\ activeTab = "curriculum"
    /\ selectedVideo' = IF ~lesson.locked THEN lesson.id ELSE selectedVideo
    /\ sections' =
          IF lesson.locked THEN sections
          ELSE [s \in 1..Len(sections) |->
                  [sections[s] EXCEPT !.lessons =
                      [k \in 1..Len(sections[s].lessons) |->
                          IF sections[s].lessons[k].id = lesson.id
                          THEN [sections[s].lessons[k] EXCEPT !.current = TRUE]
                          ELSE sections[s].lessons[k]]]]
    /\ lastOp' = "click"
    /\ lastClick' = lesson.id
    /\ UNCHANGED <<page, catalogVars, authVars, serverVars, controlVars, activeTab, isSidebarOpen,
                   showNoteForm, noteVars, videoVars>>

\* variant: the locked flag is not consulted
ClickLessonAnyway(lesson) ==
    /\ page = "learning" /\ activeTab = "curriculum"
    /\ selectedVideo' = lesson.id
    /\ lastOp' = "click"
    /\ lastClick' = lesson.id
    /\ UNCHANGED <<page, catalogVars, authVars, serverVars, controlVars, sections, activeTab, isSidebarOpen,
                   showNoteForm, noteVars, videoVars>>

\* onClick={() => !lesson.locked && setSelectedVideo(lesson.id)}
ClickLesson(lesson) ==
    /\ page = "learning" /\ activeTab = "curriculum"
    /\ selectedVideo' = IF ~lesson.locked THEN lesson.id ELSE selectedVideo
    /\ lastOp' = "click"
    /\ lastClick' = lesson.id
    /\ UNCHANGED <<page, catalogVars, authVars, serverVars, controlVars, sections, activeTab, isSidebarOpen,
                   showNoteForm, noteVars, videoVars>>

SetActiveTab(tab) ==
    /\ page = "learning"
    /\ activeTab' = tab
    /\ lastOp' = "other"
    /\ UNCHANGED <<page, catalogVars, authVars, serverVars, controlVars, sections, selectedVideo, isSidebarOpen,
                   showNoteForm, noteVars, videoVars, lastClick>>

SetIsSidebarOpen(open) ==
    /\ page = "learning"
    /\ isSidebarOpen = ~open
    /\ isSidebarOpen' = open
    /\ lastOp' = "other"
    /\ UNCHANGED <<page, catalogVars, authVars, serverVars, controlVars, sections, selectedVideo, activeTab,
                   showNoteForm, noteVars, videoVars, lastClick>>

ToggleNoteForm ==
    /\ page = "learning" /\ activeTab = "notes"
    /\ showNoteForm' = ~showNoteForm
    /\ lastOp' = "other"
    /\ UNCHANGED <<page, catalogVars, authVars, serverVars, controlVars, sections, selectedVideo, activeTab,
                   isSidebarOpen, noteVars, videoVars, lastClick>>

CancelNoteForm ==
    /\ page = "learning" /\ activeTab = "notes" /\ showNoteForm
    /\ showNoteForm' = FALSE
    /\ lastOp' = "other"
    /\ UNCHANGED <<page, catalogVars, authVars, serverVars, controlVars, sections, selectedVideo, activeTab,
                   isSidebarOpen, noteVars, videoVars, lastClick>>

\* textarea onChange={(e) => setNote(e.target.value)}
SetNote(value) ==
    /\ page = "learning" /\ activeTab = "notes" /\ showNoteForm
    /\ note' = value
    /\ lastOp' = "other"
    /\ UNCHANGED <<page, catalogVars, authVars, serverVars, controlVars, sections, selectedVideo, activeTab,
                   isSidebarOpen, showNoteForm, notes, consoleLog, videoVars,
                   lastClick>>

\* variant: the draft is tested without trim()
addNoteUntrimmed ==
    /\ page = "learning" /\ activeTab = "notes" /\ showNoteForm
    /\ IF note # << >>
       THEN /\ consoleLog' = <<[time |-> formatTime(currentTime), content |-> note]>>
            /\ note' = << >>
            /\ showNoteForm' = FALSE
       ELSE UNCHANGED <<consoleLog, note, showNoteForm>>
    /\ lastOp' = "addNote"
    /\ UNCHANGED <<page, catalogVars, authVars, serverVars, controlVars, sections, selectedVideo, activeTab,
                   isSidebarOpen, notes, videoVars, lastClick>>

\* the save button of the note form.  The record goes to console.log (its
\* timestamp, the wall-clock time, is left out); the notes array is not
\* written.
addNote ==
    /\ page = "learning" /\ activeTab = "notes" /\ showNoteForm
    /\ IF trim(note) # << >>
       THEN /\ consoleLog' = <<[time |-> formatTime(currentTime), content |-> note]>>
            /\ note' = << >>
            /\ showNoteForm' = FALSE
       ELSE UNCHANGED <<consoleLog, note, showNoteForm>>
    /\ lastOp' = "addNote"
    /\ UNCHANGED <<page, catalogVars, authVars, serverVars, controlVars, sections, selectedVideo, activeTab,
                   isSidebarOpen, notes, videoVars, lastClick>>

\* togglePlay: videoRef.current is set once the page is mounted
togglePlay ==
    /\ page = "learning"
    /\ isPlaying' = ~isPlaying
    /\ hideTimer' = << >>
    /\ quiet' = 0
    /\ lastOp' = "other"
    /\ UNCHANGED <<page, catalogVars, authVars, serverVars, showControls, sections, selectedVideo, activeTab,
                   isSidebarOpen, showNoteForm, noteVars, currentTime, lastClick>>

\* onTimeUpdate={handleTimeUpdate}: the element reports its position
handleTimeUpdate(position) ==
    /\ page = "learning"
    /\ currentTime' = position
    /\ lastOp' = "other"
    /\ UNCHANGED <<page, catalogVars, authVars, serverVars, controlVars, sections, selectedVideo, activeTab,
                   isSidebarOpen, showNoteForm, noteVars, isPlaying, lastClick>>

\* Playback reaches the end of the media: the element fires timeupdate,
\* pause (onPause sets isPlaying to false) and ended; the video element has
\* no onEnded handler.
MediaEnded(position) ==
    /\ page = "learning" /\ isPlaying
    /\ currentTime' = position
    /\ isPlaying' = FALSE
    /\ hideTimer' = << >>
    /\ quiet' = 0
    /\ lastOp' = "ended"
    /\ UNCHANGED <<page, catalogVars, authVars, serverVars, showControls, sections, selectedVideo, activeTab,
                   isSidebarOpen, showNoteForm, noteVars, lastClick>>

NextLearning ==
    \/ \E lesson \in Range(lessonsOf(sections)) : ClickLesson(lesson)
    \/ \E tab \in tabNames : SetActiveTab(tab)
    \/ \E open \in BOOLEAN : SetIsSidebarOpen(open)
    \/ ToggleNoteForm
    \/ CancelNoteForm
    \/ \E value \in NoteDrafts : SetNote(value)
    \/ addNote
    \/ togglePlay
    \/ \E position \in PlaybackTimes : handleTimeUpdate(position)
    \/ \E position \in PlaybackTimes : MediaEnded(position)

SpecLearning == InitLearning /\ [][NextLearning]_vars

(***************************************************************************)
(* The player controls of CourseLearningPage.  Time passes in whole        *)
(* seconds; a timeout that is due runs before the next second begins.  The *)
(* effect has [isPlaying] as its dependency: when isPlaying changes, its   *)
(* cleanup clears the pending timeout and the listener is registered again *)
(* with the new isPlaying in its closure (togglePlay, MediaEnded).  The    *)
(* handlers of the sidebar tabs do not touch the state of the controls;    *)
(* the button that opens the sidebar is part of the controls overlay.      *)
(***************************************************************************)
hideDelay == 3

MaxQuiet == 4

playerFrame == <<page, catalogVars, authVars, serverVars, sections, selectedVideo,
                 activeTab, isSidebarOpen, showNoteForm, noteVars, lastClick>>

\* the mousemove listener of the video element
handleMouseMove ==
    /\ page = "learning"
    /\ showControls' = TRUE
    /\ hideTimer' = <<[left |-> hideDelay, isPlaying |-> isPlaying]>>
    /\ quiet' = 0
    /\ lastOp' = "other"
    /\ UNCHANGED <<playerFrame, videoVars>>

\* the callback handed to setTimeout runs
HideTimerFires ==
    /\ page = "learning"
    /\ hideTimer # << >> /\ hideTimer[1].left = 0
    /\ showControls' = IF hideTimer[1].isPlaying THEN FALSE ELSE showControls
    /\ hideTimer' = << >>
    /\ lastOp' = "other"
    /\ UNCHANGED <<playerFrame, videoVars, quiet>>

\* one second passes
Tick ==
    /\ page = "learning"
    /\ IF hideTimer = << >> THEN TRUE ELSE hideTimer[1].left > 0
    /\ hideTimer' = IF hideTimer = << >> THEN << >>
                    ELSE <<[hideTimer[1] EXCEPT !.left = @ - 1]>>
    /\ quiet' = IF ~isPlaying THEN 0
                ELSE IF quiet < MaxQuiet THEN quiet + 1 ELSE quiet
    /\ UNCHANGED <<playerFrame, videoVars, showControls, lastOp>>

NextPlayer ==
    \/ togglePlay
    \/ \E position \in PlaybackTimes : handleTimeUpdate(position)
    \/ \E position \in PlaybackTimes : MediaEnded(position)
    \/ handleMouseMove
    \/ HideTimerFires
    \/ Tick
    \/ \E open \in BOOLEAN : SetIsSidebarOpen(open)

SpecPlayer == InitLearning /\ [][NextPlayer]_vars

(***************************************************************************)
(* AuthProvider.  Every await is a point where the async function is       *)
(* suspended and other handlers run; an action is the code from one await  *)
(* to the next.  Supabase is the environment: a call may succeed or fail,  *)
(* and the listener is called with the session the client holds whenever   *)
(* the client reports an auth event.                                       *)
(***************************************************************************)
otherPages == <<page, catalogVars, learningVars, serverVars>>

\* the effect of useRequireAuth has run for the user and loading the
\* provider exposes now (or no component uses the hook)
EffectsFlushed ==
    IF ~guarded THEN TRUE
    ELSE IF requireAuthRun = << >> THEN FALSE
    ELSE requireAuthRun[1].user = user /\ requireAuthRun[1].loading = loading

\* the mount effect: register the listener, call getUser() up to its await
MountEffect ==
    /\ page = "auth" /\ EffectsFlushed
    /\ ~subscribed
    /\ subscribed' = TRUE
    /\ getUserPc' = "getUser"
    /\ UNCHANGED <<otherPages, logoutVars, registerVars, guardVars, loggedOut,
                   user, session, loading, error, route, stored,
                   getUserAccount, loginPc, loginAccount, loginResult,
                   callbacks, initialCheck, userWritten>>

\* the listener is called with a session: it awaits the profile fetch;
\* called with null it clears user and session and ends loading
AuthStateChange ==
    /\ page = "auth" /\ EffectsFlushed
    /\ subscribed
    /\ IF stored # << >>
       THEN /\ Len(callbacks) < MaxCallbacks
            /\ callbacks' = Append(callbacks, stored[1])
            /\ loggedOut' = FALSE
            /\ UNCHANGED <<user, session, loading>>
       ELSE /\ user' = << >>
            /\ session' = << >>
            /\ loading' = FALSE
            /\ UNCHANGED <<callbacks, loggedOut>>
    /\ UNCHANGED <<otherPages, logoutVars, registerVars, guardVars,
                   error, route, stored, subscribed, getUserPc,
                   getUserAccount, loginPc, loginAccount, loginResult,
                   initialCheck, userWritten>>

\* the remaining calls after call k has left
withoutCallback(k) ==
    SubSeq(callbacks, 1, k - 1) \o SubSeq(callbacks, k + 1, Len(callbacks))

\* the profile fetch of listener call k returns
CallbackProfileReturns(k, failed) ==
    /\ page = "auth" /\ EffectsFlushed
    /\ k \in 1..Len(callbacks)
    /\ callbacks' = withoutCallback(k)
    /\ IF failed
       THEN /\ error' = <<profileMessage>>
            /\ UNCHANGED <<user, session, loading, userWritten>>
       ELSE /\ user' = <<userProfile(callbacks[k].user,
                                     profileOf(callbacks[k].user.id))>>
            /\ session' = <<callbacks[k]>>
            /\ loading' = FALSE
            /\ userWritten' = TRUE
            /\ UNCHANGED error
    /\ UNCHANGED <<otherPages, logoutVars, registerVars, guardVars, loggedOut,
                   route, stored, subscribed, getUserPc,
                   getUserAccount, loginPc, loginAccount, loginResult,
                   initialCheck>>

\* variant: the path without a signed-in user leaves loading as it is
GetUserReturnsKeepingLoading(found) ==
    /\ page = "auth" /\ EffectsFlushed
    /\ getUserPc = "getUser"
    /\ found \in {<< >>} \cup {<<stored[k].user>> : k \in 1..Len(stored)}
    /\ getUserAccount' = found
    /\ IF found # << >>
       THEN /\ getUserPc' = "profile"
            /\ initialCheck' = "user"
            /\ UNCHANGED loading
       ELSE /\ getUserPc' = "done"
            /\ initialCheck' = "none"
            /\ UNCHANGED loading
    /\ UNCHANGED <<otherPages, logoutVars, registerVars, guardVars, loggedOut,
                   user, session, error, route, stored, subscribed,
                   loginPc, loginAccount, loginResult, callbacks, userWritten>>

\* supabase.auth.getUser() returns: the user of the held session, or no user
\* (no session, or the check failed)
GetUserReturns(found) ==
    /\ page = "auth" /\ EffectsFlushed
    /\ getUserPc = "getUser"
    /\ found \in {<< >>} \cup {<<stored[k].user>> : k \in 1..Len(stored)}
    /\ getUserAccount' = found
    /\ IF found # << >>
       THEN /\ getUserPc' = "profile"
            /\ initialCheck' = "user"
            /\ UNCHANGED loading
       ELSE /\ getUserPc' = "done"
            /\ initialCheck' = "none"
            /\ loading' = FALSE
    /\ UNCHANGED <<otherPages, logoutVars, registerVars, guardVars, loggedOut,
                   user, session, error, route, stored, subscribed,
                   loginPc, loginAccount, loginResult, callbacks, userWritten>>

\* variant: a failed profile fetch of getUser() leaves loading as it is
GetUserProfileReturnsKeepingLoading(failed) ==
    /\ page = "auth" /\ EffectsFlushed
    /\ getUserPc = "profile"
    /\ IF failed
       THEN /\ error' = <<profileMessage>>
            /\ getUserPc' = "done"
            /\ UNCHANGED <<user, userWritten, loading>>
       ELSE /\ user' = <<userProfile(getUserAccount[1],
                                     profileOf(getUserAccount[1].id))>>
            /\ userWritten' = TRUE
            /\ getUserPc' = "getSession"
            /\ UNCHANGED <<error, loading>>
    /\ UNCHANGED <<otherPages, logoutVars, registerVars, guardVars, loggedOut,
                   session, route, stored, subscribed,
                   getUserAccount, loginPc, loginAccount, loginResult,
                   callbacks, initialCheck>>

\* the profile fetch of getUser() returns
GetUserProfileReturns(failed) ==
    /\ page = "auth" /\ EffectsFlushed
    /\ getUserPc = "profile"
    /\ IF failed
       THEN /\ error' = <<profileMessage>>
            /\ loading' = FALSE
            /\ getUserPc' = "done"
            /\ UNCHANGED <<user, userWritten>>
       ELSE /\ user' = <<userProfile(getUserAccount[1],
                                     profileOf(getUserAccount[1].id))>>
            /\ userWritten' = TRUE
            /\ getUserPc' = "getSession"
            /\ UNCHANGED <<error, loading>>
    /\ UNCHANGED <<otherPages, logoutVars, registerVars, guardVars, loggedOut,
                   session, route, stored, subscribed,
                   getUserAccount, loginPc, loginAccount, loginResult,
                   callbacks, initialCheck>>

\* supabase.auth.getSession() returns the session the client holds
GetSessionReturns ==
    /\ page = "auth" /\ EffectsFlushed
    /\ getUserPc = "getSession"
    /\ session' = stored
    /\ loading' = FALSE
    /\ getUserPc' = "done"
    /\ UNCHANGED <<otherPages, logoutVars, registerVars, guardVars, loggedOut,
                   user, error, route, stored, subscribed,
                   getUserAccount, loginPc, loginAccount, loginResult,
                   callbacks, initialCheck, userWritten>>

\* login(email, password) up to its first await
login ==
    /\ page = "auth" /\ EffectsFlushed
    /\ subscribed
    /\ loginPc \in {"idle", "returned", "rejected"}
    /\ error' = << >>
    /\ loginPc' = "signIn"
    /\ loginAccount' = << >>
    /\ loginResult' = << >>
    /\ loggedOut' = FALSE
    /\ UNCHANGED <<otherPages, logoutVars, registerVars, guardVars,
                   user, session, loading, route, stored,
                   subscribed, getUserPc, getUserAccount, callbacks,
                   initialCheck, userWritten>>

signInOutcomes == {"user", "noUser", "error", "rejected"}

\* variant: a reported sign-in error is returned but not recorded
SignInReturnsUnrecorded(outcome, account) ==
    /\ page = "auth" /\ EffectsFlushed
    /\ loginPc = "signIn"
    /\ CASE outcome = "error" ->
              /\ loginResult' = <<[error |-> <<signInMessage>>]>>
              /\ loginPc' = "returned"
              /\ UNCHANGED <<error, loginAccount, stored>>
         [] outcome = "rejected" ->
              /\ loginPc' = "rejected"
              /\ UNCHANGED <<error, loginResult, loginAccount, stored>>
         [] outcome = "noUser" ->
              /\ loginResult' = <<[error |-> << >>]>>
              /\ loginPc' = "returned"
              /\ UNCHANGED <<error, loginAccount, stored>>
         [] outcome = "user" ->
              /\ loginAccount' = <<account>>
              /\ stored' = <<sessionOf(account)>>
              /\ loginPc' = "profile"
              /\ UNCHANGED <<error, loginResult>>
    /\ UNCHANGED <<otherPages, logoutVars, registerVars, guardVars, loggedOut,
                   user, session, loading, route, subscribed,
                   getUserPc, getUserAccount, callbacks, initialCheck,
                   userWritten>>

\* signInWithPassword returns (or its promise is rejected); on success the
\* client holds the new session
SignInReturns(outcome, account) ==
    /\ page = "auth" /\ EffectsFlushed
    /\ loginPc = "signIn"
    /\ CASE outcome = "error" ->
              /\ error' = <<signInMessage>>
              /\ loginResult' = <<[error |-> <<signInMessage>>]>>
              /\ loginPc' = "returned"
              /\ UNCHANGED <<loginAccount, stored>>
         [] outcome = "rejected" ->
              /\ loginPc' = "rejected"
              /\ UNCHANGED <<error, loginResult, loginAccount, stored>>
         [] outcome = "noUser" ->
              /\ loginResult' = <<[error |-> << >>]>>
              /\ loginPc' = "returned"
              /\ UNCHANGED <<error, loginAccount, stored>>
         [] outcome = "user" ->
              /\ loginAccount' = <<account>>
              /\ stored' = <<sessionOf(account)>>
              /\ loginPc' = "profile"
              /\ UNCHANGED <<error, loginResult>>
    /\ UNCHANGED <<otherPages, logoutVars, registerVars, guardVars, loggedOut,
                   user, session, loading, route, subscribed,
                   getUserPc, getUserAccount, callbacks, initialCheck,
                   userWritten>>

\* the profile fetch of login() returns
LoginProfileReturns(failed) ==
    /\ page = "auth" /\ EffectsFlushed
    /\ loginPc = "profile"
    /\ loginPc' = "returned"
    /\ IF failed
       THEN /\ error' = <<profileMessage>>
            /\ loginResult' = <<[error |-> <<profileMessage>>]>>
            /\ UNCHANGED <<user, session, route, userWritten, loggedOut>>
       ELSE /\ user' = <<userProfile(loginAccount[1],
                                     profileOf(loginAccount[1].id))>>
            /\ session' = <<sessionOf(loginAccount[1])>>
            /\ route' = <<"/dashboard">>
            /\ loginResult' = <<[error |-> << >>]>>
            /\ userWritten' = TRUE
            /\ loggedOut' = FALSE
            /\ UNCHANGED error
    /\ UNCHANGED <<otherPages, logoutVars, registerVars, guardVars,
                   loading, stored, subscribed, getUserPc,
                   getUserAccount, loginAccount, callbacks, initialCheck>>

\* logout() up to its await
logout ==
    /\ page = "auth" /\ EffectsFlushed
    /\ subscribed
    /\ logoutPc \in {"idle", "returned"}
    /\ error' = << >>
    /\ logoutPc' = "signOut"
    /\ logoutResult' = << >>
    /\ UNCHANGED <<otherPages, registerVars, guardVars, loggedOut, user,
                   session, loading, route, stored, subscribed, getUserPc,
                   getUserAccount, loginPc, loginAccount, loginResult,
                   callbacks, initialCheck, userWritten>>

\* variant: user and session are cleared whatever signOut reports
SignOutReturnsClearing(failed) ==
    /\ page = "auth" /\ EffectsFlushed
    /\ logoutPc = "signOut"
    /\ logoutPc' = "returned"
    /\ user' = << >>
    /\ session' = << >>
    /\ IF failed
       THEN /\ error' = <<signOutMessage>>
            /\ logoutResult' = <<[error |-> <<signOutMessage>>]>>
            /\ UNCHANGED <<route, stored, loggedOut>>
       ELSE /\ stored' = << >>
            /\ route' = <<"/login">>
            /\ logoutResult' = <<[error |-> << >>]>>
            /\ loggedOut' = TRUE
            /\ UNCHANGED error
    /\ UNCHANGED <<otherPages, registerVars, guardVars, loading, subscribed,
                   getUserPc, getUserAccount, loginPc, loginAccount,
                   loginResult, callbacks, initialCheck, userWritten>>

\* supabase.auth.signOut() returns; on success the client holds no session
SignOutReturns(failed) ==
    /\ page = "auth" /\ EffectsFlushed
    /\ logoutPc = "signOut"
    /\ logoutPc' = "returned"
    /\ IF failed
       THEN /\ error' = <<signOutMessage>>
            /\ logoutResult' = <<[error |-> <<signOutMessage>>]>>
            /\ UNCHANGED <<user, session, route, stored, loggedOut>>
       ELSE /\ stored' = << >>
            /\ user' = << >>
            /\ session' = << >>
            /\ route' = <<"/login">>
            /\ logoutResult' = <<[error |-> << >>]>>
            /\ loggedOut' = TRUE
            /\ UNCHANGED error
    /\ UNCHANGED <<otherPages, registerVars, guardVars, loading, subscribed,
                   getUserPc, getUserAccount, loginPc, loginAccount,
                   loginResult, callbacks, initialCheck, userWritten>>

\* register(email, password, fullName) up to its first await
register ==
    /\ page = "auth" /\ EffectsFlushed
    /\ subscribed
    /\ registerPc \in {"idle", "returned"}
    /\ error' = << >>
    /\ registerPc' = "signUp"
    /\ registerData' = << >>
    /\ registerResult' = << >>
    /\ loggedOut' = FALSE
    /\ UNCHANGED <<otherPages, logoutVars, guardVars, user, session, loading,
                   route, stored, subscribed, getUserPc, getUserAccount,
                   loginPc, loginAccount, loginResult, callbacks,
                   initialCheck, userWritten>>

signUpOutcomes == {"user", "noUser", "error"}

\* supabase.auth.signUp returns: authData.session is null when the address
\* has yet to be confirmed, otherwise the client holds the new session
SignUpReturns(outcome, account, confirmed) ==
    /\ page = "auth" /\ EffectsFlushed
    /\ registerPc = "signUp"
    /\ CASE outcome = "error" ->
              /\ error' = <<signUpMessage>>
              /\ registerResult' = <<[error |-> <<signUpMessage>>]>>
              /\ registerPc' = "returned"
              /\ UNCHANGED <<registerData, stored>>
         [] outcome = "noUser" ->
              /\ registerResult' = <<[error |-> << >>]>>
              /\ registerPc' = "returned"
              /\ UNCHANGED <<error, registerData, stored>>
         [] outcome = "user" ->
              /\ registerData' =
                    <<[user |-> account,
                       session |-> IF confirmed THEN <<sessionOf(account)>>
                                   ELSE << >>]>>
              /\ stored' = IF confirmed THEN <<sessionOf(account)>> ELSE stored
              /\ registerPc' = "profile"
              /\ UNCHANGED <<error, registerResult>>
    /\ UNCHANGED <<otherPages, logoutVars, guardVars, loggedOut, user, session,
                   loading, route, subscribed, getUserPc, getUserAccount,
                   loginPc, loginAccount, loginResult, callbacks,
                   initialCheck, userWritten>>

\* the insert into profiles of register() returns
RegisterProfileReturns(failed) ==
    /\ page = "auth" /\ EffectsFlushed
    /\ registerPc = "profile"
    /\ registerPc' = "returned"
    /\ IF failed
       THEN /\ error' = <<insertMessage>>
            /\ registerResult' = <<[error |-> <<insertMessage>>]>>
            /\ UNCHANGED <<user, session, route, userWritten, loggedOut>>
       ELSE /\ user' = <<[id |-> registerData[1].user.id,
                          email |-> registerEmail,
                          full_name |-> registerFullName]>>
            /\ session' = registerData[1].session
            /\ route' = <<"/dashboard">>
            /\ registerResult' = <<[error |-> << >>]>>
            /\ userWritten' = TRUE
            /\ loggedOut' = FALSE
            /\ UNCHANGED error
    /\ UNCHANGED <<otherPages, logoutVars, guardVars, registerData, loading,
                   stored, subscribed, getUserPc, getUserAccount, loginPc,
                   loginAccount, loginResult, callbacks, initialCheck>>

\* variant: the effect does not look at loading
useRequireAuthIgnoringLoading ==
    /\ page = "auth" /\ guarded /\ ~EffectsFlushed
    /\ requireAuthRun' = <<[user |-> user, loading |-> loading,
                            pushed |-> user = << >>]>>
    /\ route' = IF user = << >> THEN <<redirectUrl>> ELSE route
    /\ UNCHANGED <<otherPages, logoutVars, registerVars, guarded, loggedOut,
                   user, session, loading, error, stored, subscribed,
                   getUserPc, getUserAccount, loginPc, loginAccount,
                   loginResult, callbacks, initialCheck, userWritten>>

\* the effect of useRequireAuth: it runs after the first render and after
\* every render in which user or loading has changed
useRequireAuth ==
    /\ page = "auth" /\ guarded /\ ~EffectsFlushed
    /\ requireAuthRun' = <<[user |-> user, loading |-> loading,
                            pushed |-> (~loading /\ user = << >>)]>>
    /\ route' = IF ~loading /\ user = << >> THEN <<redirectUrl>> ELSE route
    /\ UNCHANGED <<otherPages, logoutVars, registerVars, guarded, loggedOut,
                   user, session, loading, error, stored, subscribed,
                   getUserPc, getUserAccount, loginPc, loginAccount,
                   loginResult, callbacks, initialCheck, userWritten>>

\* the provider with its mount effect, the listener and login
NextAuth ==
    \/ MountEffect
    \/ AuthStateChange
    \/ \E k \in 1..MaxCallbacks, failed \in BOOLEAN : CallbackProfileReturns(k, failed)
    \/ \E found \in {<< >>} \cup {<<a>> : a \in accounts} : GetUserReturns(found)
    \/ \E failed \in BOOLEAN : GetUserProfileReturns(failed)
    \/ GetSessionReturns
    \/ login
    \/ \E outcome \in signInOutcomes, account \in accounts :
          SignInReturns(outcome, account)
    \/ \E failed \in BOOLEAN : LoginProfileReturns(failed)

SpecAuth == InitAuth /\ [][NextAuth]_vars

\* every Supabase call of the mount effect returns: React runs the mount
\* effect, and each await of getUser() is resumed
MountCompletes ==
    /\ WF_vars(MountEffect)
    /\ WF_vars(\E found \in {<< >>} \cup {<<a>> : a \in accounts} :
                  GetUserReturns(found))
    /\ WF_vars(\E failed \in BOOLEAN : GetUserProfileReturns(failed))
    /\ WF_vars(GetSessionReturns)

SpecAuthCompleting == SpecAuth /\ MountCompletes

\* the provider with login and logout, under a component that may call
\* useRequireAuth
InitSession ==
    /\ page = "auth" /\ CatalogUnmounted /\ InitLearningState /\ InitServerState
    /\ user = << >>
    /\ session = << >>
    /\ loading = TRUE
    /\ error = << >>
    /\ route = << >>
    /\ stored \in {<< >>} \cup {<<sessionOf(a)>> : a \in accounts}
    /\ subscribed = FALSE
    /\ getUserPc = "idle"
    /\ getUserAccount = << >>
    /\ loginPc = "idle"
    /\ loginAccount = << >>
    /\ loginResult = << >>
    /\ callbacks = << >>
    /\ initialCheck = "pending"
    /\ userWritten = FALSE
    /\ logoutPc = "idle"
    /\ logoutResult = << >>
    /\ registerPc = "idle"
    /\ registerData = << >>
    /\ registerResult = << >>
    /\ guarded \in BOOLEAN
    /\ requireAuthRun = << >>
    /\ loggedOut = FALSE

NextSession ==
    \/ NextAuth
    \/ logout
    \/ \E failed \in BOOLEAN : SignOutReturns(failed)
    \/ useRequireAuth

SpecSession == InitSession /\ [][NextSession]_vars

\* the provider with register and logout
NextRegister ==
    \/ MountEffect
    \/ AuthStateChange
    \/ \E k \in 1..MaxCallbacks, failed \in BOOLEAN : CallbackProfileReturns(k, failed)
    \/ \E found \in {<< >>} \cup {<<a>> : a \in accounts} : GetUserReturns(found)
    \/ \E failed \in BOOLEAN : GetUserProfileReturns(failed)
    \/ GetSessionReturns
    \/ register
    \/ \E outcome \in signUpOutcomes, account \in accounts, confirmed \in BOOLEAN :
          SignUpReturns(outcome, account, confirmed)
    \/ \E failed \in BOOLEAN : RegisterProfileReturns(failed)
    \/ logout
    \/ \E failed \in BOOLEAN : SignOutReturns(failed)

SpecRegister == InitAuth /\ [][NextRegister]_vars

(***************************************************************************)
(* The middleware at work: the browser starts a navigation, the server     *)
(* answers each request (through the middleware when the matcher selects   *)
(* the path), and the browser follows a redirect with the same cookies.    *)
(***************************************************************************)
InitMiddleware ==
    /\ page = "middleware" /\ CatalogUnmounted /\ InitLearningState
    /\ InitAuthState /\ InitServerState

serverFrame == <<page, catalogVars, learningVars, authVars>>

Navigate(token, pathname, search) ==
    /\ page = "middleware"
    /\ request = << >> \/ response # << >>
    /\ request' = <<[token |-> token, pathname |-> pathname, search |-> search]>>
    /\ response' = << >>
    /\ redirects' = 0
    /\ UNCHANGED serverFrame

HandleRequest ==
    /\ page = "middleware"
    /\ request # << >> /\ response = << >>
    /\ response' = IF matcher(request[1].pathname)
                   THEN <<middleware(request[1])>>
                   ELSE <<[kind |-> "next"]>>
    /\ UNCHANGED <<serverFrame, request, redirects>>

FollowRedirect ==
    /\ page = "middleware"
    /\ response # << >> /\ response[1].kind = "redirect"
    /\ redirects < MaxRedirects
    /\ request' = <<[token |-> request[1].token,
                     pathname |-> response[1].pathname,
                     search |-> response[1].search]>>
    /\ response' = << >>
    /\ redirects' = redirects + 1
    /\ UNCHANGED serverFrame

NextMiddleware ==
    \/ \E token \in tokenCookies, pathname \in requestPaths,
          search \in requestSearches : Navigate(token, pathname, search)
    \/ HandleRequest
    \/ FollowRedirect

SpecMiddleware == InitMiddleware /\ [][NextMiddleware]_vars

(***************************************************************************)
(* Properties of the catalog filter.  The accepting conditions below are   *)
(* stated on their own, not through the operators that model the code.     *)
(***************************************************************************)
\* the effect has run for the selection now on screen
EffectDone == page = "catalog" /\ ~effectPending

FoldCase(ch) == IF ch >= 65 /\ ch <= 90 THEN ch + 32 ELSE ch

\* term occurs in text at some offset, letter case ignored
OccursIn(term, text) ==
    \E off \in 0..Len(text) :
        /\ off + Len(term) <= Len(text)
        /\ \A j \in 1..Len(term) : FoldCase(text[off + j]) = FoldCase(term[j])

AcceptsSearch(i, term) ==
    \/ term = << >>
    \/ OccursIn(term, courseOf[i].title)
    \/ OccursIn(term, courseOf[i].instructor)
    \/ \E skill \in Range(courseOf[i].skills) : OccursIn(term, skill)

AcceptsCategory(i, category) ==
    category # "all" => courseOf[i].category = category

AcceptsLevel(i, level) ==
    level # "all" => courseOf[i].level = level

AcceptsPrice(i, bucket) ==
    LET price == courseOf[i].price
    IN  /\ bucket = "free" => price = 0
        /\ bucket = "le50000" => price <= 50000
        /\ bucket = "50000-100000" => (50000 < price /\ price <= 100000)
        /\ bucket = "gt100000" => price > 100000

Occurrences(i, list) == Cardinality({k \in 1..Len(list) : list[k] = i})

\* C1: the filtered list holds only courses of allCourses that satisfy every
\* active predicate of the selection (search, category, level, price), and
\* every course of allCourses that satisfies them all is in it exactly once.
C1_SoundAndComplete ==
    EffectDone =>
        /\ \A k \in 1..Len(filteredCourses) :
              /\ filteredCourses[k] \in Range(allCourses)
              /\ AcceptsSearch(filteredCourses[k], searchTerm)
              /\ AcceptsCategory(filteredCourses[k], selectedCategory)
              /\ AcceptsLevel(filteredCourses[k], selectedLevel)
              /\ AcceptsPrice(filteredCourses[k], selectedPrice)
        /\ \A i \in Range(allCourses) :
              ( /\ AcceptsSearch(i, searchTerm)
                /\ AcceptsCategory(i, selectedCategory)
                /\ AcceptsLevel(i, selectedLevel)
                /\ AcceptsPrice(i, selectedPrice) )
              => Occurrences(i, filteredCourses) = 1

\* the effect ran with all four predicates active, kept a course, dropped one
C1_Witness ==
    /\ EffectDone
    /\ searchTerm # << >> /\ selectedCategory # "all"
    /\ selectedLevel # "all" /\ selectedPrice # "all"
    /\ Len(filteredCourses) >= 1
    /\ Len(filteredCourses) < Len(allCourses)

\* C2: with the other predicates satisfied, a course is in the filtered list
\* exactly when its price is in the selected bucket (free: = 0; le50000:
\* <= 50000; 50000-100000: 50000 < price <= 100000; gt100000: > 100000; all:
\* any price); the 50000-100000 bucket keeps exactly 65000, 89000 and 99000 of
\* the prices 45000, 65000, 89000, 99000, 120000.
C2_PriceBuckets ==
    EffectDone =>
        /\ \A i \in Range(allCourses) :
              ( /\ AcceptsSearch(i, searchTerm)
                /\ AcceptsCategory(i, selectedCategory)
                /\ AcceptsLevel(i, selectedLevel) )
              => (i \in Range(filteredCourses) <=> AcceptsPrice(i, selectedPrice))
        /\ ( /\ allCourses = PriceScenario
             /\ selectedPrice = "50000-100000"
             /\ searchTerm = << >> /\ selectedCategory = "all"
             /\ selectedLevel = "all" )
           => /\ Len(filteredCourses) = 3
              /\ {courseOf[i].price : i \in Range(filteredCourses)}
                     = {65000, 89000, 99000}

\* the price scenario has been filtered by the 50000-100000 bucket
C2_Witness ==
    /\ EffectDone
    /\ allCourses = PriceScenario
    /\ selectedPrice = "50000-100000"
    /\ searchTerm = << >> /\ selectedCategory = "all" /\ selectedLevel = "all"
    /\ Len(filteredCourses) = 3

\* C3: with the other predicates satisfied, a course is in the filtered list
\* exactly when the search term, letter case ignored, occurs in its title, in
\* its instructor name or in one of its skill tags; the empty term accepts
\* every course.
C3_SearchPredicate ==
    EffectDone =>
        \A i \in Range(allCourses) :
            ( /\ AcceptsCategory(i, selectedCategory)
              /\ AcceptsLevel(i, selectedLevel)
              /\ AcceptsPrice(i, selectedPrice) )
            => (i \in Range(filteredCourses) <=> AcceptsSearch(i, searchTerm))

\* "REACT" found course 102, whose only match is a skill tag, and dropped
\* another course
C3_Witness ==
    /\ EffectDone
    /\ searchTerm = <<82, 69, 65, 67, 84>>
    /\ 102 \in Range(filteredCourses)
    /\ Len(filteredCourses) < Len(allCourses)

(***************************************************************************)
(* Order of the filtered list.                                             *)
(***************************************************************************)
\* date d is not earlier than date e (year, month, day)
NotEarlier(d, e) ==
    \/ d[1] > e[1]
    \/ d[1] = e[1] /\ d[2] > e[2]
    \/ d[1] = e[1] /\ d[2] = e[2] /\ d[3] >= e[3]

\* course i may stand before course j under the sort key
InOrder(key, i, j) ==
    LET a == courseOf[i]
        b == courseOf[j]
    IN  /\ key = "popularity" => a.students >= b.students
        /\ key = "rating" => a.rating >= b.rating
        /\ key = "recency" => NotEarlier(a.lastUpdated, b.lastUpdated)
        /\ key = "priceAsc" => a.price <= b.price
        /\ key = "priceDesc" => a.price >= b.price

\* courses i and j have the same value of the sort key
SameKey(key, i, j) ==
    LET a == courseOf[i]
        b == courseOf[j]
    IN  /\ key = "popularity" => a.students = b.students
        /\ key = "rating" => a.rating = b.rating
        /\ key = "recency" => a.lastUpdated = b.lastUpdated
        /\ key \in {"priceAsc", "priceDesc"} => a.price = b.price

PositionIn(list, i) == CHOOSE k \in 1..Len(list) : list[k] = i

\* C4: the filtered list is ordered by the selected sort key (popularity,
\* rating, recency and price-descending non-increasing, price-ascending
\* non-decreasing), the sort being applied to the filtered courses: the
\* built-in catalog under category Programming and sort popularity gives its
\* three Programming courses by descending student count.
C4_SortedBySortKey ==
    EffectDone =>
        /\ \A j, k \in 1..Len(filteredCourses) :
              j < k => InOrder(sortBy, filteredCourses[j], filteredCourses[k])
        /\ ( /\ allCourses = BuiltinCatalog
             /\ selectedCategory = "programming" /\ sortBy = "popularity"
             /\ searchTerm = << >> /\ selectedLevel = "all"
             /\ selectedPrice = "all" )
           => filteredCourses = <<1, 4, 6>>

\* the Programming scenario has been computed on the built-in catalog
C4_Witness ==
    /\ EffectDone
    /\ allCourses = BuiltinCatalog
    /\ selectedCategory = "programming" /\ sortBy = "popularity"
    /\ searchTerm = << >> /\ selectedLevel = "all" /\ selectedPrice = "all"
    /\ Len(filteredCourses) = 3

\* C5: two courses of the filtered list with equal sort key stand in the
\* order they have in allCourses, under every sort key.
C5_StableSort ==
    EffectDone =>
        \A j, k \in 1..Len(filteredCourses) :
            ( /\ j < k
              /\ SameKey(sortBy, filteredCourses[j], filteredCourses[k]) )
            => PositionIn(allCourses, filteredCourses[j])
                   < PositionIn(allCourses, filteredCourses[k])

\* sorting the built-in catalog by rating moved course 2 to the front and
\* kept courses 1 and 6, both rated 4.8, in source order
C5_Witness ==
    /\ EffectDone
    /\ allCourses = BuiltinCatalog
    /\ sortBy = "rating"
    /\ filteredCourses = <<2, 1, 6, 3, 4, 5, 7, 8>>

(***************************************************************************)
(* Category counts of the sidebar.                                         *)
(***************************************************************************)
CountIn(list, category) ==
    Cardinality({k \in 1..Len(list) : courseOf[list[k]].category = category})

RECURSIVE SumOfCounts(_)
SumOfCounts(entries) ==
    IF entries = << >> THEN 0
    ELSE (IF entries[1].name = "all" THEN 0 ELSE entries[1].count)
         + SumOfCounts(Tail(entries))

\* C6: whatever the selection has become, each category entry shows the
\* number of courses of allCourses in that category, and the "all" entry the
\* number of courses of allCourses.
C6_CountsOverAllCourses ==
    page = "catalog" =>
        /\ Len(categories) = 6
        /\ \A k \in 1..Len(categories) :
              categories[k].count =
                  IF categories[k].name = "all" THEN Len(allCourses)
                  ELSE CountIn(allCourses, categories[k].name)

\* a category is selected, the list on screen is shorter than the count shown
\* for that category's entry or for "all"
C6_Witness ==
    /\ EffectDone
    /\ selectedCategory # "all"
    /\ searchTerm # << >>
    /\ Len(filteredCourses) < Len(allCourses)
    /\ \E k \in 1..Len(categories) :
          /\ categories[k].name = selectedCategory
          /\ categories[k].count > Len(filteredCourses)

C8_PureProjection ==
    /\ [][allCourses' = allCourses]_vars
    /\ []((EffectDone /\ DefaultSelection /\ mountOutput.ran)
             => filteredCourses = mountOutput.list)

\* the effect ran a second time under the mount selection, on a collection
\* that the sort reorders
C8_Witness ==
    /\ EffectDone /\ DefaultSelection
    /\ mountOutput.again
    /\ Len(allCourses) >= 3
    /\ filteredCourses # allCourses

(***************************************************************************)
(* Lesson selection on the learning page.                                  *)
(***************************************************************************)
LessonLocked(id) ==
    \E lesson \in Range(lessonsOf(sections)) : lesson.id = id /\ lesson.locked

CurrentFlags ==
    [k \in 1..Len(lessonsOf(sections)) |-> lessonsOf(sections)[k].current]

\* C9: a click on a locked lesson changes neither selectedVideo nor the
\* current flag of any lesson.
C9_LockedClickIsNoOp ==
    [][(lastOp' = "click" /\ LessonLocked(lastClick'))
          => (selectedVideo' = selectedVideo /\ CurrentFlags' = CurrentFlags)]_vars

\* a locked lesson was clicked while another lesson was selected
C9_Witness ==
    /\ page = "learning"
    /\ lastOp = "click" /\ LessonLocked(lastClick)
    /\ selectedVideo # 0

\* C10: after a click on a lesson that is not locked, the clicked lesson is
\* the one lesson of the curriculum with current = true.
C10_SelectedIsCurrent ==
    (page = "learning" /\ lastOp = "click" /\ ~LessonLocked(lastClick))
        => \A lesson \in Range(lessonsOf(sections)) :
               lesson.current <=> lesson.id = lastClick

\* C11: at most one lesson of the curriculum has current = true, and no
\* lesson is both locked and completed, in every state of the learning page.
C11_CurriculumFlags ==
    page = "learning" =>
        LET all == lessonsOf(sections)
        IN  /\ Cardinality({k \in 1..Len(all) : all[k].current}) <= 1
            /\ \A k \in 1..Len(all) : ~(all[k].locked /\ all[k].completed)

\* a lesson other than the one flagged current has been selected
C11_Witness ==
    /\ page = "learning"
    /\ lastOp = "click" /\ selectedVideo = lastClick
    /\ \E lesson \in Range(lessonsOf(sections)) :
          lesson.id = selectedVideo /\ ~lesson.current

(***************************************************************************)
(* Progress, notes and playback on the learning page.                      *)
(***************************************************************************)
\* 100 * part / whole rounded to the nearest integer, 0 for an empty whole
RoundedPercent(part, whole) ==
    IF whole = 0 THEN 0 ELSE (200 * part + whole) \div (2 * whole)

\* C12: the progress shown is computed from the lessons: completedLessons is
\* the number of completed lessons, totalLessons the number of lessons and
\* progress the rounded percentage of the two (0 for no lessons).
C12_ProgressFromLessons ==
    page = "learning" =>
        LET all == lessonsOf(sections)
            done == Cardinality({k \in 1..Len(all) : all[k].completed})
        IN  /\ courseDataCompletedLessons = done
            /\ courseDataTotalLessons = Len(all)
            /\ courseDataProgress = RoundedPercent(done, Len(all))

\* a text of white space only, the empty text included
BlankText(text) == \A k \in 1..Len(text) : text[k] \in {9, 10, 13, 32}

\* C13: addNote on an empty or white-space-only draft creates no note and
\* leaves the draft, the visibility of the note form and the note list as
\* they were.
C13_BlankNoteRejected ==
    [][(lastOp' = "addNote" /\ BlankText(note))
          => /\ note' = note
             /\ showNoteForm' = showNoteForm
             /\ notes' = notes
             /\ consoleLog' = consoleLog]_vars

\* addNote has run on a draft of spaces, which is still in the open form
C13_Witness ==
    /\ page = "learning"
    /\ lastOp = "addNote"
    /\ note # << >> /\ BlankText(note)
    /\ showNoteForm

\* the decimal digits of a natural number
RECURSIVE DecimalOf(_)
DecimalOf(n) ==
    IF n <= 9 THEN <<48 + n>> ELSE DecimalOf(n \div 10) \o <<48 + (n % 10)>>

\* minutes ":" two-digit seconds of a position given in tenths of a second
TimeLabel(position) ==
    LET whole == position \div 10
    IN  DecimalOf(whole \div 60) \o <<58>>
            \o <<48 + ((whole % 60) \div 10), 48 + ((whole % 60) % 10)>>

\* C14: addNote on a non-blank draft puts into the note list a note whose
\* content is the draft and whose time label is minutes ":" two-digit
\* seconds of the playback position.
C14_NoteJoinsList ==
    [][(lastOp' = "addNote" /\ ~BlankText(note))
          => \E k \in 1..Len(notes') :
                /\ notes'[k].content = note
                /\ notes'[k].time = TimeLabel(currentTime)]_vars

\* C17: once playback has reached the end of the media, the lesson being
\* played (the lesson flagged current, the lesson selected in the sidebar)
\* is completed.
C17_EndedMarksCompleted ==
    (page = "learning" /\ lastOp = "ended")
        => \A lesson \in Range(lessonsOf(sections)) :
               (lesson.current \/ lesson.id = selectedVideo) => lesson.completed

(***************************************************************************)
(* The list shown by the catalog, and resetFilters.                        *)
(***************************************************************************)
\* C16: in every state of the catalog page, filteredCourses is the filter
\* and sort of allCourses under the current selection.
C16_NeverStale ==
    page = "catalog" =>
        filteredCourses = filterEffect(allCourses, searchTerm, selectedCategory,
                                       selectedLevel, selectedPrice, sortBy).filtered

\* the list holds every course of allCourses once, most students first
WholeCollectionByStudents(list) ==
    /\ Len(list) = Len(allCourses)
    /\ \A k \in 1..Len(allCourses) : Occurrences(allCourses[k], list) = 1
    /\ \A j, k \in 1..Len(list) :
          j < k => courseOf[list[j]].students >= courseOf[list[k]].students

\* C18: the page is mounted with the selection (empty search, all, all, all,
\* popularity); resetFilters restores exactly that selection, and the list
\* computed for it is the whole collection by descending student count.
C18_ResetRestoresDefaults ==
    page = "catalog" =>
        /\ lastHandler = "none" => DefaultSelection
        /\ lastHandler = "reset" =>
              /\ DefaultSelection
              /\ ~effectPending => WholeCollectionByStudents(filteredCourses)

\* resetFilters has run and the list for the mount selection was recomputed
C18_Witness ==
    /\ page = "catalog"
    /\ lastHandler = "reset"
    /\ ~effectPending /\ mountOutput.again
    /\ Len(allCourses) >= 3

\* C15: a price bucket or sort key that is none of the options is rejected
\* where it enters: the page never holds a list computed for a selection
\* with such a value.
C15_UnrecognizedRejected ==
    (page = "catalog" /\ ~effectPending)
        => /\ selectedPrice \in Range(priceOptions)
           /\ sortBy \in Range(sortOptions)

LoginSucceeds ==
    /\ loginPc = "profile" /\ loginPc' = "returned"
    /\ loginResult' = <<[error |-> << >>]>>

\* the step sets user and session to the account signed in and redirects
LoginEstablishesAccount ==
    /\ user' # << >>
    /\ user'[1].id = loginAccount[1].id
    /\ user'[1].email = (IF loginAccount[1].email = << >> THEN ""
                         ELSE loginAccount[1].email[1])
    /\ session' = <<[user |-> loginAccount[1]]>>
    /\ route' = <<"/dashboard">>

\* C20: when signInWithPassword returns a user and the profile fetch
\* succeeds, login sets user to that account (id, email) and session to the
\* returned session, leaves error null, redirects to /dashboard and returns
\* {error: null}.
C20_LoginSuccess ==
    [][LoginSucceeds => (LoginEstablishesAccount /\ error' = << >>)]_vars

\* login() resolves to an error object
LoginFails ==
    /\ loginPc \in {"signIn", "profile"} /\ loginPc' = "returned"
    /\ loginResult' # << >> /\ loginResult'[1].error # << >>

\* C21: when signInWithPassword reports an error or the profile fetch that
\* follows fails, login returns that error to its caller and records its
\* message in error; no step of a login call that fails writes user or
\* session or redirects.
C21_LoginFailure ==
    [][/\ LoginFails =>
            /\ error' = loginResult'[1].error
            /\ error' = (IF loginPc = "signIn" THEN <<"Invalid login credentials">>
                         ELSE <<"Profile not found">>)
       /\ (loginPc' # loginPc /\ ~LoginSucceeds) =>
            (user' = user /\ session' = session /\ route' = route)]_vars

\* a signed-in provider after a login whose sign-in was refused
C21_Witness ==
    /\ page = "auth"
    /\ loginPc = "returned"
    /\ loginResult = <<[error |-> <<"Invalid login credentials">>]>>
    /\ error = <<"Invalid login credentials">>
    /\ user # << >> /\ session # << >> /\ route = << >>

(***************************************************************************)
(* The lesson selection of the learning page.                              *)
(***************************************************************************)
\* C29: in every state of the learning page, selectedVideo is the id of a
\* lesson of the curriculum that is not locked.
C29_SelectedVideoValid ==
    page = "learning" =>
        \E lesson \in Range(lessonsOf(sections)) :
            lesson.id = selectedVideo /\ ~lesson.locked

(***************************************************************************)
(* The player controls.                                                    *)
(***************************************************************************)
\* C30: when the video has been playing for more than 3 seconds without a
\* mousemove, counted from the start of playback or from the last
\* mousemove, the controls are hidden (showControls is false).
C30_ControlsAutoHide ==
    (page = "learning" /\ isPlaying /\ quiet > 3) => ~showControls

(***************************************************************************)
(* The route middleware.  The expected response is stated on its own.      *)
(***************************************************************************)
Prefixed(text, prefix) ==
    Len(prefix) <= Len(text) /\ SubSeq(text, 1, Len(prefix)) = prefix

HexValue(ch) == IF ch <= 57 THEN ch - 48 ELSE ch - 55

\* the text a percent-encoded query value stands for
RECURSIVE QueryDecode(_)
QueryDecode(text) ==
    IF text = << >> THEN << >>
    ELSE IF text[1] = 37 /\ Len(text) >= 3
         THEN <<16 * HexValue(text[2]) + HexValue(text[3])>>
                 \o QueryDecode(SubSeq(text, 4, Len(text)))
    ELSE IF text[1] = 43 THEN <<32>> \o QueryDecode(Tail(text))
    ELSE <<text[1]>> \o QueryDecode(Tail(text))

\* the value of the single parameter from of a query string, << >> if the
\* string is not of that form
FromOf(search) ==
    IF Prefixed(search, <<63, 102, 114, 111, 109, 61>>)
    THEN <<QueryDecode(SubSeq(search, 7, Len(search)))>>
    ELSE << >>

\* C23: the response depends on the token cookie and the pathname only: with
\* a token, a path starting with /login or /register is redirected to
\* /dashboard; without a token, a path starting with /dashboard, /profile or
\* /settings is redirected to /login with from = the pathname; every other
\* request passes through.
C23_MiddlewareResponse ==
    (page = "middleware" /\ response # << >>) =>
        LET path == request[1].pathname
            hasToken == request[1].token # << >>
            answer == response[1]
        IN  IF hasToken /\ (\/ Prefixed(path, <<47, 108, 111, 103, 105, 110>>)
                            \/ Prefixed(path, <<47, 114, 101, 103, 105, 115, 116, 101, 114>>))
            THEN /\ answer.kind = "redirect"
                 /\ answer.pathname = <<47, 100, 97, 115, 104, 98, 111, 97, 114, 100>>
                 /\ answer.search = << >>
            ELSE IF ~hasToken /\ (\/ Prefixed(path, <<47, 100, 97, 115, 104, 98, 111, 97, 114, 100>>)
                                  \/ Prefixed(path, <<47, 112, 114, 111, 102, 105, 108, 101>>)
                                  \/ Prefixed(path, <<47, 115, 101, 116, 116, 105, 110, 103, 115>>))
            THEN /\ answer.kind = "redirect"
                 /\ answer.pathname = <<47, 108, 111, 103, 105, 110>>
                 /\ FromOf(answer.search) = <<path>>
            ELSE answer.kind = "next"

\* a request without a token for /profile/a%20b, with a query string of its
\* own, has been sent to the login page
C23_Witness ==
    /\ page = "middleware"
    /\ request # << >> /\ response # << >>
    /\ request[1].token = << >>
    /\ request[1].pathname = <<47, 112, 114, 111, 102, 105, 108, 101, 47, 97, 37, 50, 48, 98>>
    /\ request[1].search # << >>
    /\ response[1].kind = "redirect"

\* C28: following the redirects of the middleware with the cookies
\* unchanged, a navigation is redirected at most once: the request a
\* redirect leads to is passed through.
C28_NoRedirectLoop ==
    page = "middleware" =>
        /\ redirects <= 1
        /\ (redirects = 1 /\ response # << >>) => response[1].kind = "next"

\* a redirect has been followed and its target answered
C28_Witness ==
    /\ page = "middleware"
    /\ redirects = 1 /\ response # << >>
    /\ request[1].token # << >>
    /\ request[1].pathname = <<47, 100, 97, 115, 104, 98, 111, 97, 114, 100>>

\* the step in which logout() is resumed after signOut
LogoutResumes == logoutPc = "signOut" /\ logoutPc' = "returned"

\* C22: logout clears user and session and pushes /login when signOut
\* succeeds; when signOut reports an error it leaves user, session and the
\* route as they are and records the message in error.
C22_LogoutClears ==
    [][LogoutResumes =>
          IF logoutResult'[1].error = << >>
          THEN /\ user' = << >>
               /\ session' = << >>
               /\ route' = <<"/login">>
          ELSE /\ user' = user
               /\ session' = session
               /\ route' = route
               /\ error' = <<signOutMessage>>
               /\ logoutResult'[1].error = error']_vars

\* a signed-out provider after a successful logout of a signed-in user
C22_Witness ==
    /\ logoutPc = "returned"
    /\ logoutResult = <<[error |-> << >>]>>
    /\ userWritten
    /\ user = << >>
    /\ session = << >>
    /\ route = <<"/login">>

\* C24: the effect of useRequireAuth pushes redirectUrl exactly when loading
\* is false and user is null; while loading, or with a user, it leaves the
\* route alone.
C24_RequireAuthRedirect ==
    [][requireAuthRun' # requireAuthRun =>
          /\ requireAuthRun'[1].pushed <=> (~loading /\ user = << >>)
          /\ requireAuthRun'[1].pushed => route' = <<redirectUrl>>
          /\ ~requireAuthRun'[1].pushed => route' = route]_vars

\* the hook has redirected a visitor once the initial check found no user
C24_Witness ==
    /\ guarded
    /\ requireAuthRun # << >>
    /\ requireAuthRun[1].pushed
    /\ route = <<redirectUrl>>
    /\ initialCheck = "none"

\* no login, register, logout, getUser() or listener call is in flight
Quiescent ==
    /\ page = "auth"
    /\ subscribed
    /\ getUserPc = "done"
    /\ loginPc \in {"idle", "returned", "rejected"}
    /\ logoutPc \in {"idle", "returned"}
    /\ registerPc \in {"idle", "returned"}
    /\ callbacks = << >>

\* C25: with no auth operation in flight, user is non-null exactly when
\* session is non-null.
C25_UserIffSession ==
    Quiescent => (user # << >> <=> session # << >>)

\* C26: after a successful logout user stays null until a later login,
\* register or signed-in listener call begins.
C26_LoggedOutStaysNull ==
    loggedOut => user = << >>

\* C27: loading becomes false once the calls of the mount effect have
\* returned, and from then on it stays false.
C27_LoadingSettles ==
    <>[](~loading)

\* the initial check ended on a failed profile fetch
C27_Witness ==
    /\ ~loading
    /\ getUserPc = "done"
    /\ initialCheck = "user"
    /\ error = <<profileMessage>>
    /\ user = << >>
====
